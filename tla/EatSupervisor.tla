--------------------------- MODULE EatSupervisor ---------------------------
(***************************************************************************)
(* The terminal supervisor of src/personal/eat-supervisor.el: what it      *)
(* learns about every Eat terminal from the shell integration sequences,   *)
(* from the text on the screen and from a repeating scan timer, and the    *)
(* notifications it sends when a coding agent asks, finishes or exits.     *)
(*                                                                         *)
(* Time.  The code stores float-time stamps and only ever compares the     *)
(* time since a stamp with one interval, so a stamp is modelled by its     *)
(* age, which saturates at that interval: Grace for the last output, Hold  *)
(* for the last working marker (the stamp 0.0, "never", is the age Hold),  *)
(* Debounce for the last state change.  Tick makes every stamp older.      *)
(*                                                                         *)
(* Text.  A screen is the set of markers that the patterns of the code     *)
(* find on it, in the title or in the tail of the buffer.                  *)
(*                                                                         *)
(* Concurrency.  Emacs runs one handler at a time (a filter, a sentinel, a *)
(* timer or a command), and none of those modelled here yields: a handler  *)
(* is one action, and the handlers interleave.                             *)
(***************************************************************************)
EXTENDS Integers, Sequences, FiniteSets

CONSTANTS
  Buffer,          \* the terminals that may exist, each with its buffer
  Command,         \* the command lines a shell may announce
  CommandAgent,    \* the agent each command line names; "none" when the
                   \* announcement decodes to nothing
  NoCommand,       \* the value of a terminal that has no command line
  Screens,         \* the sets of markers a screen may show
  Grace,           \* my/eat-sup-working-grace, in ticks
  Hold,            \* my/eat-sup-working-hold, in ticks
  Debounce,        \* my/eat-sup-idle-debounce, in ticks
  MaxToggles,      \* bound on how often the mode is switched on or off
  MaxReloads,      \* bound on how often it is switched on while it is on
  NotifierMayBreak \* whether the notifier program may disappear

Coding == {"claude", "codex"}
Agent == Coding \cup {"shell", "unknown"}
State == {"unknown", "exited", "awaiting", "working", "running", "idle"}
Marker == {"escToInterrupt", "spark", "claudeBusy", "codexBusy", "claudeAsks",
           "codexAsks", "claudeName", "codexName", "prompt"}

ASSUME BufferAssumption == IsFiniteSet(Buffer)
ASSUME CommandAssumption ==
  /\ CommandAgent \in [Command -> Coding \cup {"shell", "none"}]
  /\ NoCommand \notin Command
ASSUME ScreensAssumption == Screens \subseteq SUBSET Marker /\ {} \in Screens
ASSUME IntervalAssumption == Grace \in Nat /\ Hold \in Nat /\ Debounce \in Nat
ASSUME BoundAssumption ==
  /\ MaxToggles \in Nat
  /\ MaxReloads \in Nat
  /\ NotifierMayBreak \in BOOLEAN

VARIABLES
  status,     \* each terminal: no buffer ("absent"), a live process, a dead
              \* process whose sentinel has not run, a buffer left without
              \* one, or one "stuck" with an emulator that has none
  shell,      \* each shell: where it is in the integration protocol
  screen,     \* each terminal: the markers its title and text show
  loc,        \* each buffer: the buffer-local variables of the supervisor
  bufferList, \* my/eat-buffer-list
  mode,       \* my/eat-supervisor-mode
  held,       \* whether my/eat-sup--timer holds a timer
  timers,     \* how many scan timers are scheduled
  modeLine,   \* the counts shown by my/eat-sup--mode-line-string
  notifier,   \* whether the notification program can still be called
  alerts,     \* the notifications sent by the last step
  toggles,    \* how often the mode was switched on or off
  reloads,    \* how often it was switched on while it was on
  watched     \* each terminal: the supervisor has been on, without being
              \* switched on again, since it started (history)

vars == <<status, shell, screen, loc, bufferList, mode, held, timers, modeLine,
          notifier, alerts, toggles, reloads, watched>>

-----------------------------------------------------------------------------
(* The buffer-local variables, and the patterns. *)

\* lines 88-104: the values a fresh buffer has.
DefaultLocal ==
  [agent |-> "unknown", state |-> "unknown", lastState |-> "unknown",
   idleAlerted |-> FALSE, command |-> NoCommand, commandRunning |-> FALSE,
   sessionActive |-> FALSE, pending |-> "none",
   outputAge |-> Grace, markerAge |-> Hold, stateAge |-> Debounce,
   hooked |-> FALSE]

\* my/eat-sup--init-buffer: stamps of now, and the output hook.
InitBuffer == [DefaultLocal EXCEPT !.outputAge = 0, !.stateAge = 0, !.hooked = TRUE]

\* my/eat-sup-patterns and my/eat-sup-working-re: the markers that show an
\* agent at work.  Claude has its own list, the others use the fallback.
WorkingMarkers(agent) ==
  CASE agent = "claude" -> {"escToInterrupt", "claudeBusy"}
    [] agent = "codex"  -> {"escToInterrupt", "spark", "codexBusy"}
    [] OTHER            -> {"escToInterrupt", "spark"}

\* The markers that show an agent asking for approval.
ApprovalMarkers(agent) ==
  CASE agent = "claude" -> {"claudeAsks"}
    [] agent = "codex"  -> {"codexAsks"}
    [] OTHER            -> {}

Shows(scr, markers) == scr \cap markers # {}

WorkingMarkerP(agent, scr) == Shows(scr, WorkingMarkers(agent))
AwaitingApprovalP(agent, scr) == Shows(scr, ApprovalMarkers(agent))

\* my/eat-sup--detect-agent: an agent once known is kept; the first pattern
\* that matches names it.
DetectAgent(l, scr) ==
  IF l.agent # "unknown" THEN l.agent
  ELSE IF "claudeName" \in scr THEN "claude"
  ELSE IF "codexName" \in scr THEN "codex"
  ELSE IF "prompt" \in scr THEN "shell"
  ELSE "unknown"

Fresh(l) == l.outputAge < Grace

\* my/eat-sup--working-held-p
WorkingHeldP(l) == l.agent \in Coding /\ l.markerAge < Hold /\ Fresh(l)

\* The first conditional of my/eat-sup--detect-state.
RefreshMarker(l, scr) ==
  IF WorkingMarkerP(l.agent, scr) /\ Fresh(l) THEN [l EXCEPT !.markerAge = 0] ELSE l

\* Mutant: a marker on the screen means work however old the output is.
ShowsWorkNoGrace(l, scr) == WorkingMarkerP(l.agent, scr) \/ WorkingHeldP(l)

ShowsWork(l, scr) == (WorkingMarkerP(l.agent, scr) \/ WorkingHeldP(l)) /\ Fresh(l)

\* Mutant: a running command is looked at before a question on the screen.
DetectStateCommandFirst(l, scr, processLive) ==
  IF ~processLive THEN "exited"
  ELSE IF l.commandRunning THEN "running"
  ELSE IF AwaitingApprovalP(l.agent, scr) THEN "awaiting"
  ELSE IF ShowsWork(l, scr) THEN "working"
  ELSE "idle"

\* The cond of my/eat-sup--detect-state.
DetectState(l, scr, processLive) ==
  IF ~processLive THEN "exited"
  ELSE IF AwaitingApprovalP(l.agent, scr) THEN "awaiting"
  ELSE IF ShowsWork(l, scr) THEN "working"
  ELSE IF l.commandRunning THEN "running"
  ELSE "idle"

-----------------------------------------------------------------------------
(* The handlers, as functions of the buffer-local variables. *)

OnPreCmd(l) == [l EXCEPT !.commandRunning = TRUE]

\* Mutant: an announcement that decodes to nothing is not ignored.
DecodesAlways(cmd) == TRUE

\* my/eat-sup--decode-command finds a command line in the announcement.
Decodes(cmd) == CommandAgent[cmd] # "none"

\* Mutant: a new command leaves the last session's report pending.
OnSetCmdKeepsPending(l, cmd) ==
  IF ~Decodes(cmd) THEN l
  ELSE [l EXCEPT !.agent = CommandAgent[cmd],
                 !.command = cmd,
                 !.sessionActive = (CommandAgent[cmd] \in Coding),
                 !.markerAge = Hold]

OnSetCmd(l, cmd) ==
  IF ~Decodes(cmd) THEN l
  ELSE [l EXCEPT !.agent = CommandAgent[cmd],
                 !.command = cmd,
                 !.pending = "none",
                 !.sessionActive = (CommandAgent[cmd] \in Coding),
                 !.markerAge = Hold]

\* Mutant: the command of the session that ended is still shown.
OnNewPromptKeepsCommand(l) ==
  [l EXCEPT !.pending = IF l.agent \in Coding THEN l.agent ELSE l.pending,
            !.agent = "shell",
            !.commandRunning = FALSE,
            !.sessionActive = FALSE,
            !.markerAge = Hold]

OnNewPrompt(l) ==
  [l EXCEPT !.pending = IF l.agent \in Coding THEN l.agent ELSE l.pending,
            !.agent = "shell",
            !.command = NoCommand,
            !.commandRunning = FALSE,
            !.sessionActive = FALSE,
            !.markerAge = Hold]

\* my/eat-sup--note-output, run by eat-update-hook where it was added.
NoteOutput(l, scr) ==
  LET agent == DetectAgent(l, scr)
      seen == agent # "unknown" /\ WorkingMarkerP(agent, scr)
  IN IF ~l.hooked THEN l
     ELSE [l EXCEPT !.outputAge = 0,
                    !.agent = agent,
                    !.markerAge = IF seen THEN 0 ELSE l.markerAge]

\* my/eat-sup--on-exit, before its alert.
OnExit(l) == [l EXCEPT !.command = NoCommand, !.commandRunning = FALSE]

\* Mutant: a new state keeps the mark of the last idle alert.
EnteredKeepsAlerted(l, new) ==
  IF new = l.state THEN l
  ELSE [l EXCEPT !.lastState = l.state, !.state = new, !.stateAge = 0]

\* The transition of my/eat-sup--scan.
Entered(l, new) ==
  IF new = l.state THEN l
  ELSE [l EXCEPT !.lastState = l.state, !.state = new,
                 !.stateAge = 0, !.idleAlerted = FALSE]

\* The body of my/eat-sup--scan up to the transition: agent, marker, state.
Surveyed(l, scr, processLive) ==
  LET named == [l EXCEPT !.agent = DetectAgent(l, scr)]
      m == RefreshMarker(named, scr)
  IN Entered(m, DetectState(m, scr, processLive))

\* Mutant: the text alone decides that a session ended.
SessionOverByText(l) == l.pending # "none" \/ l.lastState \in {"working", "awaiting"}

\* Mutant: only a session whose work was seen is reported.
SessionOverIfSeen(l) == ~l.sessionActive /\ l.lastState \in {"working", "awaiting"}

SessionOver(l) ==
  /\ ~l.sessionActive
  /\ l.pending # "none" \/ l.lastState \in {"working", "awaiting"}

\* The condition under which my/eat-sup--scan calls my/eat-sup--alert-idle.
IdleAlertDue(l) ==
  /\ l.state = "idle"
  /\ ~l.idleAlerted
  /\ SessionOver(l)
  /\ l.stateAge >= Debounce

ReportedAgent(l) == IF l.pending # "none" THEN l.pending ELSE l.agent

\* my/eat-sup--alert-idle after its alert, and the flag its caller sets.
AlertIdle(l) ==
  IF ~IdleAlertDue(l) THEN l
  ELSE [l EXCEPT !.idleAlerted = TRUE,
                 !.agent = IF l.pending # "none" THEN "shell" ELSE l.agent,
                 !.pending = "none"]

-----------------------------------------------------------------------------
(* The notifications: a terminal, a kind and the agent named in the text. *)

Notify(b, kind, agent) == IF agent \in Coding THEN {<<b, kind, agent>>} ELSE {}

\* Lists of buffers.  A buffer is on the list at most once, so removing its
\* one occurrence is delq.
Listed == {bufferList[i] : i \in DOMAIN bufferList}

Without(list, b) ==
  IF \E i \in DOMAIN list : list[i] = b
  THEN LET i == CHOOSE j \in DOMAIN list : list[j] = b
       IN SubSeq(list, 1, i - 1) \o SubSeq(list, i + 1, Len(list))
  ELSE list

HasProcess(b) == status[b] \in {"live", "dead"}

\* my/eat-sup--counts, of the buffers on the list.
Counts(l) ==
  [awaiting |-> Cardinality({b \in Listed : l[b].state = "awaiting"}),
   working  |-> Cardinality({b \in Listed : l[b].state \in {"working", "running"}})]

Blank == [awaiting |-> 0, working |-> 0]

supervision == <<mode, held, timers, modeLine, notifier, toggles, reloads>>

-----------------------------------------------------------------------------
(* Terminals start, print, and end. *)

\* Mutant: a terminal started again is listed again.
OnExecAlways(b) == Append(bufferList, b)

\* my/eat-on-exec
OnExec(b) == IF b \in Listed THEN bufferList ELSE Append(bufferList, b)

\* eat-exec and its hooks: the supervisor's, when the mode is on, then the one
\* that lists the buffer.  A buffer left without a process is used again.
StartTerminal(b) ==
  /\ status[b] \in {"absent", "left"}
  /\ status' = [status EXCEPT ![b] = "live"]
  /\ shell' = [shell EXCEPT ![b] = "starting"]
  /\ screen' = [screen EXCEPT ![b] = {}]
  /\ loc' = IF mode THEN [loc EXCEPT ![b] = InitBuffer] ELSE loc
  /\ bufferList' = OnExec(b)
  /\ watched' = [watched EXCEPT ![b] = mode]
  /\ alerts' = {}
  /\ UNCHANGED supervision

\* A chunk of output is processed: what the integration sequence in it does,
\* when the mode has advised its handler, and then the output hook.  A chunk
\* with several sequences is a chunk for each, with the screen {} between.
Output(b, scr, handled) ==
  /\ screen' = [screen EXCEPT ![b] = scr]
  /\ loc' = [loc EXCEPT ![b] = NoteOutput(IF mode THEN handled ELSE @, scr)]
  /\ alerts' = {}
  /\ UNCHANGED <<status, bufferList, watched, supervision>>

PlainOutput(b, scr) ==
  /\ HasProcess(b)
  /\ Output(b, scr, loc[b])
  /\ UNCHANGED shell

\* UIC J: the shell is about to print a prompt.
NewPrompt(b, scr) ==
  /\ HasProcess(b)
  /\ shell[b] \in {"starting", "prompt", "running"}
  /\ shell' = [shell EXCEPT ![b] = "prompt"]
  /\ Output(b, scr, OnNewPrompt(loc[b]))

\* UIC F: the shell announces the command it will run.
SetCmd(b, scr, cmd) ==
  /\ HasProcess(b)
  /\ shell[b] = "prompt"
  /\ shell' = [shell EXCEPT ![b] = "announced"]
  /\ Output(b, scr, OnSetCmd(loc[b], cmd))

\* UIC G: the shell runs it.
PreCmd(b, scr) ==
  /\ HasProcess(b)
  /\ shell[b] = "announced"
  /\ shell' = [shell EXCEPT ![b] = "running"]
  /\ Output(b, scr, OnPreCmd(loc[b]))

\* The windows that show a live terminal change and resizing is not debounced
\* (my/eat-resize-debounce-delay is zero): the resize runs the output hook
\* without my/eat--resizing.  One that is put off runs no hook, and is no step
\* here until it is made.
WindowChange(b) ==
  /\ status[b] = "live"
  /\ Output(b, screen[b], loc[b])
  /\ UNCHANGED shell

\* A debounced resize redraws the terminal.  It runs the output hook too, which
\* the flag my/eat--resizing now makes do nothing.
Resize(b, scr) ==
  /\ status[b] = "live"
  /\ screen' = [screen EXCEPT ![b] = scr]
  /\ alerts' = {}
  /\ UNCHANGED <<status, shell, loc, bufferList, watched, supervision>>

ProcessDies(b) ==
  /\ status[b] = "live"
  /\ status' = [status EXCEPT ![b] = "dead"]
  /\ alerts' = {}
  /\ UNCHANGED <<shell, screen, loc, bufferList, watched, supervision>>

\* An answer to a query in the output of a dead process cannot be sent.  The
\* error ends the drain before the output hook, and when it is the sentinel's
\* drain also the sentinel, before eat-exit-hook: the emulator stays, so that
\* the command eat never starts a process there again.
DrainFails(b, scr) ==
  /\ status[b] = "dead"
  /\ \E next \in {"dead", "stuck"} : status' = [status EXCEPT ![b] = next]
  /\ screen' = [screen EXCEPT ![b] = scr]
  /\ alerts' = {}
  /\ UNCHANGED <<shell, loc, bufferList, watched, supervision>>

\* kill-buffer: its variables are gone, and its hook takes it off the list.
Discard(b) ==
  /\ status' = [status EXCEPT ![b] = "absent"]
  /\ shell' = [shell EXCEPT ![b] = "starting"]
  /\ screen' = [screen EXCEPT ![b] = {}]
  /\ loc' = [loc EXCEPT ![b] = DefaultLocal]
  /\ bufferList' = Without(bufferList, b)
  /\ watched' = [watched EXCEPT ![b] = FALSE]

\* eat--sentinel empties the output queue, which runs the output hook, and runs
\* eat-exit-hook: the supervisor's function, the list's and the one that kills
\* the buffer.  An alert that fails stops the hook there.
Sentinel(b) ==
  LET last == NoteOutput(loc[b], screen[b])
      due == IF mode THEN Notify(b, "exited", last.agent) ELSE {}
  IN /\ status[b] = "dead"
     /\ IF due # {} /\ notifier = "broken"
        THEN /\ status' = [status EXCEPT ![b] = "left"]
             /\ loc' = [loc EXCEPT ![b] = OnExit(last)]
             /\ alerts' = {}
             /\ UNCHANGED <<shell, screen, bufferList, watched>>
        ELSE /\ alerts' = due
             /\ Discard(b)
     /\ UNCHANGED supervision

\* The user kills the buffer, from the supervisor's list or otherwise.
KillBuffer(b) ==
  /\ status[b] # "absent"
  /\ Discard(b)
  /\ alerts' = {}
  /\ UNCHANGED supervision

-----------------------------------------------------------------------------
(* The scan. *)

Survey(b) == Surveyed(loc[b], screen[b], status[b] = "live")

\* What a scan has to announce about b: a question or an end.
DueAlerts(b) ==
  IF Survey(b).state = "awaiting" /\ loc[b].state # "awaiting"
  THEN Notify(b, "approval", Survey(b).agent)
  ELSE IF IdleAlertDue(Survey(b))
  THEN Notify(b, "done", ReportedAgent(Survey(b)))
  ELSE {}

\* The buffers whose alert a notifier that cannot be called makes fail.
Failing == {i \in DOMAIN bufferList :
              notifier = "broken" /\ DueAlerts(bufferList[i]) # {}}

\* my/eat-sup--scan visits the list in order.  A broken notifier
\* fails at its first alert: that buffer keeps what was set before it, the
\* later ones are not visited, and the display is not refreshed.
Scan ==
  LET first == {i \in Failing : \A j \in Failing : i <= j}
      scanned == {bufferList[i] : i \in {k \in DOMAIN bufferList :
                                           \A j \in Failing : k < j}}
      cut == {bufferList[i] : i \in first}
  IN /\ timers > 0
     /\ loc' = [b \in Buffer |-> IF b \in scanned THEN AlertIdle(Survey(b))
                                 ELSE IF b \in cut THEN Survey(b)
                                 ELSE loc[b]]
     /\ alerts' = UNION {DueAlerts(b) : b \in scanned}
     /\ modeLine' = IF Failing = {} THEN Counts(loc') ELSE modeLine
     /\ UNCHANGED <<status, shell, screen, bufferList, watched, mode, held, timers,
                    notifier, toggles, reloads>>

-----------------------------------------------------------------------------
(* The minor mode, the clock and the notifier. *)

\* The enabling branch: every listed buffer that has a process starts afresh,
\* and a new repeating timer replaces whatever the variable held.
EnableBody ==
  /\ mode' = TRUE
  /\ loc' = [b \in Buffer |-> IF b \in Listed /\ HasProcess(b) THEN InitBuffer
                              ELSE loc[b]]
  /\ timers' = timers + 1
  /\ held' = TRUE
  /\ watched' = [b \in Buffer |-> FALSE]
  /\ alerts' = {}
  /\ UNCHANGED <<status, shell, screen, bufferList, modeLine, notifier>>

Enable ==
  /\ ~mode
  /\ toggles < MaxToggles
  /\ toggles' = toggles + 1
  /\ UNCHANGED reloads
  /\ EnableBody

\* Loading eat-term.el again calls (my/eat-supervisor-mode 1) again.
Reload ==
  /\ mode
  /\ reloads < MaxReloads
  /\ reloads' = reloads + 1
  /\ UNCHANGED toggles
  /\ EnableBody

\* Mutant: the timer goes on.
CancelNothing == timers

\* The timer that the variable holds is cancelled.
CancelTimer == IF held THEN timers - 1 ELSE timers

Disable ==
  /\ mode
  /\ toggles < MaxToggles
  /\ toggles' = toggles + 1
  /\ mode' = FALSE
  /\ timers' = CancelTimer
  /\ held' = FALSE
  /\ modeLine' = Blank
  /\ watched' = [b \in Buffer |-> FALSE]
  /\ alerts' = {}
  /\ UNCHANGED <<status, shell, screen, loc, bufferList, notifier, reloads>>

\* Every stamp grows older, up to the interval it is compared with.
Older(l) ==
  [l EXCEPT !.outputAge = IF l.outputAge < Grace THEN l.outputAge + 1 ELSE l.outputAge,
            !.markerAge = IF l.markerAge < Hold THEN l.markerAge + 1 ELSE l.markerAge,
            !.stateAge = IF l.stateAge < Debounce THEN l.stateAge + 1 ELSE l.stateAge]

\* Time passes.
Tick ==
  /\ loc' = [b \in Buffer |-> Older(loc[b])]
  /\ alerts' = {}
  /\ UNCHANGED <<status, shell, screen, bufferList, watched, supervision>>

\* The notification program, found when alert.el was loaded, is uninstalled.
LoseNotifier ==
  /\ NotifierMayBreak
  /\ notifier = "ok"
  /\ notifier' = "broken"
  /\ alerts' = {}
  /\ UNCHANGED <<status, shell, screen, loc, bufferList, watched, mode, held,
                 timers, modeLine, toggles, reloads>>

-----------------------------------------------------------------------------

Init ==
  /\ status = [b \in Buffer |-> "absent"]
  /\ shell = [b \in Buffer |-> "starting"]
  /\ screen = [b \in Buffer |-> {}]
  /\ loc = [b \in Buffer |-> DefaultLocal]
  /\ bufferList = <<>>
  /\ mode \in BOOLEAN
  /\ held = mode
  /\ timers = IF mode THEN 1 ELSE 0
  /\ modeLine = Blank
  /\ notifier = "ok"
  /\ alerts = {}
  /\ toggles = 0
  /\ reloads = 0
  /\ watched = [b \in Buffer |-> FALSE]

TerminalStep(b) ==
  \/ StartTerminal(b)
  \/ \E scr \in Screens :
       \/ PlainOutput(b, scr)
       \/ NewPrompt(b, scr)
       \/ \E cmd \in Command : SetCmd(b, scr, cmd)
       \/ PreCmd(b, scr)
       \/ Resize(b, scr)
       \/ DrainFails(b, scr)
  \/ WindowChange(b)
  \/ ProcessDies(b)
  \/ Sentinel(b)
  \/ KillBuffer(b)

Next ==
  \/ \E b \in Buffer : TerminalStep(b)
  \/ Scan
  \/ Enable
  \/ Reload
  \/ Disable
  \/ Tick
  \/ LoseNotifier

Spec == Init /\ [][Next]_vars

\* The timer repeats, time passes, and Emacs runs the sentinel of a dead process.
Fairness ==
  /\ WF_vars(Scan)
  /\ WF_vars(Tick)
  /\ \A b \in Buffer : WF_vars(Sentinel(b))

FairSpec == Spec /\ Fairness

-----------------------------------------------------------------------------
(* Safety. *)

Local ==
  [agent : Agent, state : State, lastState : State, idleAlerted : BOOLEAN,
   command : Command \cup {NoCommand}, commandRunning : BOOLEAN,
   sessionActive : BOOLEAN, pending : Coding \cup {"none"},
   outputAge : 0 .. Grace, markerAge : 0 .. Hold, stateAge : 0 .. Debounce,
   hooked : BOOLEAN]

\* Every variable of the supervisor holds a value of its type.
TypeOK ==
  /\ status \in [Buffer -> {"absent", "live", "dead", "left", "stuck"}]
  /\ shell \in [Buffer -> {"starting", "prompt", "announced", "running"}]
  /\ screen \in [Buffer -> Screens]
  /\ loc \in [Buffer -> Local]
  /\ bufferList \in Seq(Buffer)
  /\ mode \in BOOLEAN
  /\ held \in BOOLEAN
  /\ timers \in Nat
  /\ modeLine \in [awaiting : Nat, working : Nat]
  /\ notifier \in {"ok", "broken"}
  /\ alerts \subseteq (Buffer \X {"approval", "done", "exited"} \X Coding)
  /\ toggles \in 0 .. MaxToggles
  /\ reloads \in 0 .. MaxReloads
  /\ watched \in [Buffer -> BOOLEAN]

\* While the end of a session waits to be reported, no agent owns the
\* terminal: set-cmd, new-prompt, alert-idle and the text detection of the scan
\* and of the output hook never leave a pending agent beside a running one.
PendingExcludesSession ==
  \A b \in Buffer : loc[b].pending # "none" =>
    /\ loc[b].agent = "shell"
    /\ ~loc[b].sessionActive
    /\ loc[b].command = NoCommand

\* The command shown for a terminal is the one its agent was taken from, and a
\* session is only active under a coding agent, so that the agent the alerts
\* name is the one that runs.
CommandNamesAgent ==
  \A b \in Buffer :
    /\ loc[b].command # NoCommand => loc[b].agent = CommandAgent[loc[b].command]
    /\ loc[b].sessionActive => loc[b].agent \in Coding

\* The idle alert is only marked as sent in the idle state it was sent for: the
\* flag is reset by the scan that sees the next state.
IdleAlertedWhileIdle ==
  \A b \in Buffer : loc[b].idleAlerted => loc[b].state = "idle"

\* my/eat-buffer-list holds every terminal buffer once and no dead one, whatever
\* order its hooks ran in and whether or not an exit alert or a drain failed.
ListMatchesBuffers ==
  /\ Listed = {b \in Buffer : status[b] # "absent"}
  /\ \A i, j \in DOMAIN bufferList : bufferList[i] = bufferList[j] => i = j

\* Each time the mode is switched on a timer is scheduled, and switching it off
\* cancels the last one only: there is one timer while the mode is on, none
\* while it is off, and one more for every reload.
TimersAccounted ==
  /\ held = mode
  /\ timers = (IF mode THEN 1 ELSE 0) + reloads

\* While the mode is off, nothing is announced and the mode line is blank,
\* unless loading the file again left a timer that still scans.
ModeOffQuiet == ~mode /\ reloads = 0 => alerts = {} /\ modeLine = Blank

\* The agent whose session goes on, by the variables of a buffer.
Session(l) == IF l.sessionActive THEN l.agent ELSE "none"

\* The integration of a terminal has spoken, under a supervisor that watched the
\* terminal from its start.
Sure(b) == watched[b] /\ shell[b] # "starting"

Reported(b) == {agent \in Coding : <<b, "done", agent>> \in alerts}

Reports(b) ==
  INSTANCE SessionReports WITH
    Agents  <- Coding,
    sure    <- Sure(b),
    running <- Session(loc[b]),
    owed    <- loc[b].pending,
    busy    <- shell[b] = "running",
    report  <- Reported(b)

\* The supervisor implements what is promised of the sessions of every terminal:
\* "done" is reported once for an agent session that ended, of the agent that
\* ran, and never while a command runs, whatever the text on the screen suggests.
ReportsSessions ==
  /\ \A b \in Buffer : Reports(b)!ReportsInit
  /\ [][\A b \in Buffer : Reports(b)!ReportsStep]_vars

-----------------------------------------------------------------------------
(* Liveness. *)

\* What may rightly postpone the report of b: a command that runs, output that
\* looks like work, the loss of the process, or the end of the scans.
Postponed(b) ==
  \/ loc[b].commandRunning
  \/ WorkingMarkerP(loc[b].agent, screen[b]) /\ Fresh(loc[b])
  \/ status[b] # "live"
  \/ timers = 0

\* The end of a session that finds the idle alert unsent is reported.
DoneReported ==
  \A b \in Buffer :
    (loc[b].pending # "none" /\ ~loc[b].idleAlerted)
      ~> (loc[b].pending = "none" \/ Postponed(b))

\* The end of every session is reported, "so the done alert fires reliably
\* regardless of whether working state was detected".
DoneFiresReliably ==
  \A b \in Buffer :
    loc[b].pending # "none" ~> (loc[b].pending = "none" \/ Postponed(b))

Asks(b) ==
  /\ status[b] = "live"
  /\ timers > 0
  /\ AwaitingApprovalP(loc[b].agent, screen[b])

\* A question that stays on the screen of a terminal not yet shown as awaiting
\* is announced.
QuestionAnnounced ==
  \A b \in Buffer :
    (Asks(b) /\ loc[b].state # "awaiting")
      ~> (~Asks(b) \/ \E agent \in Coding : <<b, "approval", agent>> \in alerts)

\* A terminal that has been silent for the grace period is not shown as working
\* for ever: a spinner left on the screen by a hung agent does not count.
SilentWorkClears ==
  \A b \in Buffer :
    (loc[b].state = "working" /\ ~Fresh(loc[b]) /\ timers > 0)
      ~> (loc[b].state # "working" \/ Fresh(loc[b]) \/ timers = 0)

\* The scans reach every terminal on the list.
EveryBufferScanned ==
  \A b \in Buffer :
    (b \in Listed /\ timers > 0)
      ~> (loc[b].state # "unknown" \/ b \notin Listed \/ timers = 0)

=============================================================================
