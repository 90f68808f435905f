------------------------------- MODULE EatTerm -------------------------------
(***************************************************************************)
(* The list of terminals of src/personal/eat-term.el, and the commands     *)
(* that move between them: my/eat-buffer-list is kept by the hooks of      *)
(* Eat and of kill-buffer, my/eat-switch goes round it, and the exit of a  *)
(* terminal schedules a switch to another, which runs when the cleanup is  *)
(* over and finds whatever buffers are left then.                          *)
(***************************************************************************)
EXTENDS Integers, Sequences, SequencesExt, FiniteSets

CONSTANTS
  Buffer,      \* the buffers that terminals may have
  Elsewhere,   \* any buffer that is not a terminal
  MaxSwitches, \* bound on the switches that wait to run
  Fails        \* whether a function of the exit hook may fail

ASSUME BufferAssumption == IsFiniteSet(Buffer) /\ Elsewhere \notin Buffer
ASSUME BoundAssumption == MaxSwitches \in Nat /\ Fails \in BOOLEAN

VARIABLES
  process,    \* each buffer: its process is "live", "dead", or there is "none";
              \* "stuck" is none with an emulator that still has one
  alive,      \* the terminal buffers that exist
  bufferList, \* my/eat-buffer-list
  current,    \* the buffer of the selected window
  switches    \* the targets of the scheduled switches, in order

vars == <<process, alive, bufferList, current, switches>>

Listed == ToSet(bufferList)

\* seq-filter: the buffers of the list that are kept, in their order.
Filtered(list, keep) ==
  LET at == {i \in DOMAIN list : list[i] \in keep}
      Rank(i) == Cardinality({j \in at : j <= i})
  IN [k \in 1 .. Cardinality(at) |-> list[CHOOSE i \in at : Rank(i) = k]]

\* my/eat-prune-buffer-list
Prune(list) == Filtered(list, alive)

Delq(b, list) == Filtered(list, Buffer \ {b})

\* seq-position, from 0.
Position(b, list) == CHOOSE i \in 0 .. Len(list) - 1 : list[i + 1] = b

\* Mutant: the index is not wrapped at the first buffer.
CycledClamped(b, step, list) ==
  LET i == Position(b, list) + step
  IN list[1 + (IF i < 0 THEN 0 ELSE i % Len(list))]

\* The last branch of my/eat-switch.
Cycled(b, step, list) == list[1 + ((Position(b, list) + step) % Len(list))]

\* Mutant: a buffer whose process starts again is listed again.
RegisteredTwice(b) == Append(Filtered(bufferList, alive \cup {b}), b)

\* my/eat-on-exec, when the process of b starts.
Registered(b) ==
  LET bufs == Filtered(bufferList, alive \cup {b})
  IN IF b \in ToSet(bufs) THEN bufs ELSE Append(bufs, b)

-----------------------------------------------------------------------------

\* my/eat and my/eat-project: the buffer, new or found, is shown, and gets a
\* process unless its emulator has one.
Eat(b) ==
  /\ current' = b
  /\ alive' = alive \cup {b}
  /\ IF process[b] = "none"
     THEN /\ process' = [process EXCEPT ![b] = "live"]
          /\ bufferList' = Registered(b)
     ELSE UNCHANGED <<process, bufferList>>
  /\ UNCHANGED switches

\* my/eat-switch, with a terminal on the list; without one it is my/eat.
Cycle(step) ==
  LET bufs == Prune(bufferList)
  IN /\ bufs # <<>>
     /\ bufferList' = bufs
     /\ current' = IF current \in ToSet(bufs) THEN Cycled(current, step, bufs)
                   ELSE bufs[1]
     /\ UNCHANGED <<process, alive, switches>>

NextTerminal == Cycle(1)
PreviousTerminal == Cycle(-1)

\* The user selects another buffer.
Leave ==
  /\ current' \in alive \cup {Elsewhere}
  /\ UNCHANGED <<process, alive, bufferList, switches>>

ProcessDies(b) ==
  /\ process[b] = "live"
  /\ process' = [process EXCEPT ![b] = "dead"]
  /\ UNCHANGED <<alive, bufferList, current, switches>>

\* kill-buffer, whose hook is my/eat-forget-current-buffer: Emacs shows some
\* other buffer instead.
Kill(b, list) ==
  /\ alive' = alive \ {b}
  /\ bufferList' = Delq(b, Prune(list))
  /\ process' = [process EXCEPT ![b] = "none"]
  /\ IF current = b THEN current' \in alive' \cup {Elsewhere} ELSE UNCHANGED current

KillBuffer(b) ==
  /\ b \in alive
  /\ Kill(b, bufferList)
  /\ UNCHANGED switches

\* Mutant: the closed terminal may be gone to.
OthersAll(b) == Prune(bufferList)

\* The terminals that my/eat-on-exit may go to.
Others(b) == Delq(b, Prune(bufferList))

\* eat-exit-hook: my/eat-on-exit takes b off the list and schedules a switch to
\* the first terminal left; then the buffer is killed.  When a function before
\* it fails, neither happens; when eat--sentinel fails before the hook, the
\* emulator is not deleted either.
Sentinel(b) ==
  /\ process[b] = "dead"
  /\ \/ /\ Fails
        /\ \E next \in {"none", "stuck"} : process' = [process EXCEPT ![b] = next]
        /\ UNCHANGED <<alive, bufferList, current, switches>>
     \/ /\ Len(switches) < MaxSwitches
        /\ switches' = IF Others(b) # <<>> THEN Append(switches, Others(b)[1]) ELSE switches
        /\ Kill(b, Others(b))

\* Mutant: the buffer is not looked at again.
SwitchAnyway(b) == current' = b

\* Mutant: a terminal whose process has ended is not gone to.
SwitchIfRunning(b) == IF process[b] = "live" THEN current' = b ELSE UNCHANGED current

\* my/eat-switch-to-buffer-if-live
SwitchIfLive(b) == IF b \in alive THEN current' = b ELSE UNCHANGED current

\* The first scheduled switch runs.
RunSwitch ==
  /\ switches # <<>>
  /\ switches' = Tail(switches)
  /\ SwitchIfLive(Head(switches))
  /\ UNCHANGED <<process, alive, bufferList>>

Init ==
  /\ process = [b \in Buffer |-> "none"]
  /\ alive = {}
  /\ bufferList = <<>>
  /\ current = Elsewhere
  /\ switches = <<>>

Next ==
  \/ \E b \in Buffer : Eat(b) \/ ProcessDies(b) \/ KillBuffer(b) \/ Sentinel(b)
  \/ NextTerminal \/ PreviousTerminal \/ Leave \/ RunSwitch

Spec == Init /\ [][Next]_vars

\* Emacs runs its timers.
FairSpec == Spec /\ WF_vars(RunSwitch)
-----------------------------------------------------------------------------

\* Every variable holds a value of its type: the list has each terminal buffer
\* once and nothing else, whatever order exits, kills and restarts come in.
TypeOK ==
  /\ process \in [Buffer -> {"live", "dead", "none", "stuck"}]
  /\ alive \subseteq Buffer
  /\ bufferList \in Seq(Buffer) /\ Listed = alive
  /\ IsInjective(bufferList)
  /\ current \in Buffer \cup {Elsewhere}
  /\ switches \in Seq(Buffer) /\ Len(switches) <= MaxSwitches

\* No window is left on a buffer that is gone, although a switch is scheduled
\* before its target may exit or be killed in turn.
CurrentExists == current \in alive \cup {Elsewhere}

\* The terminals that repeated steps from b come to.
Visited(b, step) ==
  LET at[k \in 0 .. Len(bufferList) - 1] ==
        IF k = 0 THEN b ELSE Cycled(at[k - 1], step, bufferList)
  IN {at[k] : k \in DOMAIN at}

\* Going round visits every terminal, in either direction, and each direction
\* undoes the other: also at both ends of the list.
CycleVisitsAll ==
  \A b \in Listed :
    /\ Visited(b, 1) = Listed
    /\ Visited(b, -1) = Listed
    /\ Cycled(Cycled(b, 1, bufferList), -1, bufferList) = b

\* A switch never goes to the terminal whose exit scheduled it, nor to one that
\* exited at the same time and was cleaned up first.
SwitchLeavesClosed ==
  [][\A b \in Buffer : b \in alive /\ b \notin alive' =>
       \/ switches' = switches
       \/ Last(switches') \in alive']_vars

\* The switch that an exit scheduled is made, unless its target is gone too.
SwitchHappens ==
  \A b \in Buffer : b \in ToSet(switches) ~> (current = b \/ b \notin alive)

=============================================================================
