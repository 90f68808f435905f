----------------------------- MODULE EatResize -----------------------------
(***************************************************************************)
(* The debounced resizing of src/personal/eat-term.el, with the parts of   *)
(* eat.el it is hooked into: one terminal buffer, the windows that show    *)
(* it, its emulator, the pseudo terminal its program sees, the timer that  *)
(* waits for the windows to settle, and the record of the last output.     *)
(*                                                                         *)
(* A size is one number, and a terminal takes the smallest of the sizes of *)
(* its windows.  A window change and the call of the process's resizing    *)
(* function are two steps: Emacs makes the call at its next redisplay, and *)
(* a timer may run before it.                                              *)
(***************************************************************************)
EXTENDS Integers, FiniteSets

CONSTANTS
  Window,      \* the windows of the visible frames
  MaxSize,     \* bound on the size of a window
  DefaultSize, \* the size of a terminal that no window shows
  Delay,       \* my/eat-resize-debounce-delay, in ticks, unless it is zero
  TimerId,     \* the timers that may be scheduled at a time
  MaxChanges   \* bound on the window changes and on the customizations

Size == 1 .. MaxSize
NoTimer == 0

ASSUME WindowAssumption == IsFiniteSet(Window)
ASSUME SizeAssumption == MaxSize \in Nat /\ DefaultSize \in Size
ASSUME DelayAssumption == Delay \in Nat \ {0} /\ MaxChanges \in Nat
ASSUME TimerAssumption == TimerId \subseteq Nat \ {NoTimer}

VARIABLES
  shown,    \* each window: its size while it shows the buffer, else 0
  unseen,   \* whether Emacs has still to call the resizing functions
  status,   \* no buffer ("absent"), a live process, a dead one, a buffer left
            \* without one, or one "stuck" with an emulator that has none
  term,     \* the size of eat-terminal, 0 while it is nil
  pty,      \* the size the program was told
  delay,    \* my/eat-resize-debounce-delay
  timers,   \* the scheduled resize timers
  held,     \* my/eat--resize-timer
  asked,    \* whether redisplay asked for a size since the start (history)
  quiet,    \* the time since the last resize was put off (history)
  printed,  \* whether the last step was a drain of output (history)
  noted,    \* whether it was recorded as output by the supervisor
  changes   \* how often the windows or the delay changed

vars == <<shown, unseen, status, term, pty, delay, timers, held, asked, quiet,
          printed, noted, changes>>

-----------------------------------------------------------------------------

Sizes == {shown[w] : w \in {v \in Window : shown[v] # 0}}
Visible == Sizes # {}

\* window-adjust-process-window-size-smallest
Smallest == CHOOSE s \in Sizes : \A r \in Sizes : s <= r

Holding(id) == {t \in timers : t.id = id}
FreeIds == TimerId \ {t.id : t \in timers}
NextId == CHOOSE id \in FreeIds : \A other \in FreeIds : id <= other

\* my/eat--cancel-resize-timer
Cancelled == timers \ Holding(held)
CancelResizeTimer == timers' = Cancelled /\ held' = NoTimer

\* Mutant: the earlier timer goes on.
ScheduleAnother ==
  /\ timers' = timers \cup {[id |-> NextId, left |-> delay]}
  /\ held' = NextId
  /\ quiet' = 0

\* my/eat--schedule-resize
ScheduleResize ==
  /\ timers' = Cancelled \cup {[id |-> NextId, left |-> delay]}
  /\ held' = NextId
  /\ quiet' = 0

\* The emulator takes a size, and the program is told.
Take(size) == term' = size /\ pty' = size

Silent == printed' = FALSE /\ noted' = FALSE

\* eat--adjust-process-window-size with a size: the emulator takes it, its
\* caller tells the program, and the output hook runs, which the supervisor
\* notes as output unless my/eat--resizing is bound.
Resized(size, resizing) ==
  /\ Take(size)
  /\ printed' = FALSE
  /\ noted' = ~resizing

\* Without one it does nothing: in particular it runs no hook.
NotResized == UNCHANGED <<term, pty>> /\ Silent

-----------------------------------------------------------------------------

\* The user changes windows: sizes, and which of them show the buffer.
ChangeWindows ==
  /\ changes < MaxChanges
  /\ changes' = changes + 1
  /\ \E new \in [Window -> 0 .. MaxSize] :
       /\ status = "absent" => \A w \in Window : new[w] = 0
       /\ shown' = new
  /\ unseen' = TRUE
  /\ Silent
  /\ UNCHANGED <<status, term, pty, delay, timers, held, asked, quiet>>

\* The first branch of my/eat--debounced-window-size.
Synchronous == delay <= 0

\* Redisplay calls the resizing function of a live, visible process, and
\* nothing binds my/eat--resizing or my/eat--force-resize there.  Without a
\* delay it resizes at once, else it puts the resize off and returns nothing.
Adjust ==
  /\ unseen
  /\ unseen' = FALSE
  /\ IF status = "live" /\ Visible
     THEN /\ asked' = TRUE
          /\ IF Synchronous
             THEN Resized(Smallest, FALSE) /\ UNCHANGED <<timers, held, quiet>>
             ELSE FreeIds # {} /\ ScheduleResize /\ NotResized
     ELSE NotResized /\ UNCHANGED <<timers, held, asked, quiet>>
  /\ UNCHANGED <<shown, status, delay, changes>>

\* Mutant: my/eat--force-resize is not bound, so the resize is put off again.
ApplyUnforced(t) ==
  IF status = "live" /\ Visible /\ term # 0 /\ ~Synchronous
  THEN /\ FreeIds # {}
       /\ ScheduleResize
       /\ NotResized
  ELSE /\ timers' = timers \ {t}
       /\ held' = NoTimer
       /\ NotResized
       /\ UNCHANGED quiet

\* Mutant: only the emulator takes the size.
ApplyUntold(t) ==
  /\ timers' = timers \ {t}
  /\ held' = NoTimer
  /\ IF status = "live" /\ Visible /\ term # 0
     THEN term' = Smallest
     ELSE UNCHANGED term
  /\ Silent
  /\ UNCHANGED <<pty, quiet>>

\* Mutant: a terminal that is resized is not resized back.
ApplyGrows(t) ==
  /\ timers' = timers \ {t}
  /\ held' = NoTimer
  /\ IF status = "live" /\ Visible /\ term # 0 /\ Smallest > term
     THEN Resized(Smallest, TRUE)
     ELSE NotResized
  /\ UNCHANGED quiet

\* Mutant: the process and the emulator are not looked at first.
ApplyAnyway(t) ==
  /\ timers' = timers \ {t}
  /\ held' = NoTimer
  /\ IF Visible THEN Resized(Smallest, TRUE) ELSE NotResized
  /\ UNCHANGED quiet

\* my/eat--apply-pending-resize binds my/eat--force-resize and my/eat--resizing
\* around the request.  With a delay, a size that the terminal already has is
\* no size to take.
Apply(t) ==
  /\ timers' = timers \ {t}
  /\ held' = NoTimer
  /\ IF status = "live" /\ Visible /\ term # 0 /\ (Synchronous \/ Smallest # term)
     THEN Resized(Smallest, TRUE)
     ELSE NotResized
  /\ UNCHANGED quiet

\* The timer of a resize runs.
FireTimer ==
  \E t \in timers :
    /\ t.left = 0
    /\ Apply(t)
    /\ UNCHANGED <<shown, unseen, status, delay, asked, changes>>

-----------------------------------------------------------------------------

\* The command eat displays the buffer and runs eat-exec there: the emulator
\* takes the size of one of the windows, and my/eat-on-exec drops the resize
\* that was pending for the terminal before it.
StartTerminal ==
  /\ status \in {"absent", "left"}
  /\ status' = "live"
  /\ \E w \in Window, size \in Size :
       /\ shown[w] # 0 => size = shown[w]
       /\ shown' = [shown EXCEPT ![w] = size]
  /\ \E w \in Window : shown'[w] # 0 /\ Take(shown'[w])
  /\ unseen' = (unseen \/ shown' # shown)
  /\ asked' = FALSE
  /\ CancelResizeTimer
  /\ Silent
  /\ UNCHANGED <<delay, quiet, changes>>

\* A command that runs in the background starts one that no window shows.
StartHidden ==
  /\ status \in {"absent", "left"}
  /\ ~Visible
  /\ status' = "live"
  /\ Take(DefaultSize)
  /\ CancelResizeTimer
  /\ Silent
  /\ asked' = FALSE
  /\ UNCHANGED <<shown, unseen, delay, quiet, changes>>

Output ==
  /\ status \in {"live", "dead"}
  /\ printed' = TRUE
  /\ noted' = TRUE
  /\ UNCHANGED <<shown, unseen, status, term, pty, delay, timers, held, asked, quiet,
                 changes>>

ProcessDies ==
  /\ status = "live"
  /\ status' = "dead"
  /\ Silent
  /\ UNCHANGED <<shown, unseen, term, pty, delay, timers, held, asked, quiet, changes>>

\* An answer of the emulator to a dead process is an error: it ends the drain
\* before the output hook, and the sentinel if the drain is the sentinel's.
DrainFails ==
  /\ status = "dead"
  /\ status' \in {"dead", "stuck"}
  /\ printed' = TRUE
  /\ noted' = FALSE
  /\ UNCHANGED <<shown, unseen, term, pty, delay, timers, held, asked, quiet, changes>>

\* eat--sentinel empties the output queue, which runs the output hook, and
\* deletes the emulator; my/eat-on-exit cancels the resize and the buffer is
\* killed, unless a hook before them failed.
Sentinel ==
  /\ status = "dead"
  /\ term' = 0
  /\ pty' = 0
  /\ \/ /\ status' = "absent"
        /\ shown' = [w \in Window |-> 0]
        /\ unseen' = TRUE
        /\ CancelResizeTimer
     \/ /\ status' = "left"
        /\ UNCHANGED <<shown, unseen, timers, held>>
  /\ printed' = TRUE
  /\ noted' = TRUE
  /\ UNCHANGED <<delay, asked, quiet, changes>>

\* The buffer is killed, and with it the process; its hook cancels the resize.
KillBuffer ==
  /\ status # "absent"
  /\ status' = "absent"
  /\ term' = 0
  /\ pty' = 0
  /\ shown' = [w \in Window |-> 0]
  /\ unseen' = TRUE
  /\ CancelResizeTimer
  /\ Silent
  /\ UNCHANGED <<delay, asked, quiet, changes>>

\* "Set this to zero to resize synchronously after every window change."
Customize ==
  /\ changes < MaxChanges
  /\ changes' = changes + 1
  /\ delay' \in {0, Delay} \ {delay}
  /\ Silent
  /\ UNCHANGED <<shown, unseen, status, term, pty, timers, held, asked, quiet>>

Tick ==
  /\ timers' = {[t EXCEPT !.left = IF @ > 0 THEN @ - 1 ELSE 0] : t \in timers}
  /\ quiet' = IF quiet < Delay THEN quiet + 1 ELSE quiet
  /\ Silent
  /\ UNCHANGED <<shown, unseen, status, term, pty, delay, held, asked, changes>>

Init ==
  /\ shown = [w \in Window |-> 0]
  /\ unseen = FALSE
  /\ status = "absent"
  /\ term = 0
  /\ pty = 0
  /\ delay \in {0, Delay}
  /\ timers = {}
  /\ held = NoTimer
  /\ asked = FALSE
  /\ quiet = Delay
  /\ printed = FALSE
  /\ noted = FALSE
  /\ changes = 0

Next ==
  \/ ChangeWindows \/ Adjust \/ FireTimer
  \/ StartTerminal \/ StartHidden \/ Output \/ ProcessDies \/ DrainFails \/ Sentinel \/ KillBuffer
  \/ Customize \/ Tick

Spec == Init /\ [][Next]_vars

\* Redisplay comes, timers run, and time passes.
Fairness == WF_vars(Adjust) /\ WF_vars(FireTimer) /\ WF_vars(Tick)

FairSpec == Spec /\ Fairness
-----------------------------------------------------------------------------

\* Every variable holds a value of its type, and a terminal has an emulator
\* exactly while it has a process or had one whose end it missed.
TypeOK ==
  /\ shown \in [Window -> 0 .. MaxSize]
  /\ unseen \in BOOLEAN
  /\ status \in {"absent", "live", "dead", "left", "stuck"}
  /\ term \in 0 .. MaxSize /\ pty \in 0 .. MaxSize
  /\ (term # 0) = (status \in {"live", "dead", "stuck"})
  /\ delay \in {0, Delay}
  /\ timers \subseteq [id : TimerId, left : 0 .. Delay]
  /\ held \in TimerId \cup {NoTimer}
  /\ asked \in BOOLEAN
  /\ quiet \in 0 .. Delay
  /\ printed \in BOOLEAN /\ noted \in BOOLEAN
  /\ changes \in 0 .. MaxChanges

\* However windows, timers, restarts and changes of the delay interleave, the
\* program is always told the size its emulator has.
PtyAgrees == pty = term

\* A pending resize is the one the buffer's variable holds, so that the next
\* request, a restart, the exit and the death of the buffer can cancel it.
PendingIsHeld == timers = Holding(held) /\ (held # NoTimer => timers # {})

\* When no resize is pending and redisplay has seen the windows, a visible
\* terminal has the size of its windows: hiding it, restarting it or setting
\* the delay to zero while a resize is pending loses no size.  (A terminal
\* restarted where two windows show it has the size of one of them until
\* redisplay asks.)
NoStaleSize ==
  (status = "live" /\ asked /\ Visible /\ ~unseen /\ held = NoTimer)
    => term = Smallest

Settling ==
  INSTANCE SettledSize WITH
    running <- status = "live",
    wanted  <- IF Visible THEN Smallest ELSE 0,
    size    <- term,
    told    <- pty,
    atOnce  <- Synchronous,
    owed    <- timers # {}

\* However requests, timers, restarts and changes of the delay interleave,
\* eat-term.el keeps the promise of a debounced resize: a burst of window
\* changes reaches the program as one size, the one the windows then have.
SizeSettles == Settling!SettledSpec

\* Once redisplay has asked or will ask, a terminal whose size differs from
\* its windows' gets their size, unless it ends or is hidden first.
ResizeApplied ==
  (status = "live" /\ (asked \/ unseen) /\ Visible /\ term # Smallest)
    ~> (status # "live" \/ ~Visible \/ term = Smallest)

\* "Record the timestamp of the latest terminal process output.": the
\* supervisor's stamp is only renewed by a drain of output, and not by a resize,
\* at which my/eat--resizing is "Non-nil while applying a resize-only Eat update."
StampIsOutput == noted => printed

=============================================================================
