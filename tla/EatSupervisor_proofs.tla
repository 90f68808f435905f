----------------------- MODULE EatSupervisor_proofs -----------------------
(***************************************************************************)
(* Theorems about EatSupervisor, for every set of terminals and commands,  *)
(* every repertoire of screens and all intervals: the types and the        *)
(* timers, the record of sessions and what is reported of them, what a     *)
(* scan sees, and how the report of an ended session comes nearer.         *)
(***************************************************************************)
EXTENDS EatSupervisor, FiniteSetTheorems, TLAPS

-----------------------------------------------------------------------------
(* The handlers, on the variables of one buffer. *)

LEMMA AgentType ==
  /\ "unknown" \in Agent /\ "shell" \in Agent
  /\ Coding \subseteq Agent
  /\ "none" \notin Agent
  BY DEF Agent, Coding

LEMMA IntervalType == 0 \in 0 .. Grace /\ Grace \in 0 .. Grace
  /\ 0 \in 0 .. Hold /\ Hold \in 0 .. Hold
  /\ 0 \in 0 .. Debounce /\ Debounce \in 0 .. Debounce
  BY IntervalAssumption DEF IntervalAssumption

LEMMA DefaultLocalType == DefaultLocal \in Local /\ InitBuffer \in Local
<1>1. "unknown" \in State
  BY DEF State
<1>2. DefaultLocal \in Local
  BY <1>1, AgentType, IntervalType DEF DefaultLocal, Local
<1>3. InitBuffer \in Local
  BY <1>2, IntervalType DEF InitBuffer, Local
<1> QED BY <1>2, <1>3

LEMMA DetectAgentType ==
  ASSUME NEW l \in Local, NEW scr
  PROVE  DetectAgent(l, scr) \in Agent
  BY DEF DetectAgent, Local, Agent, Coding

LEMMA OnPreCmdType ==
  ASSUME NEW l \in Local
  PROVE  OnPreCmd(l) \in Local
  BY DEF OnPreCmd, Local

LEMMA OnSetCmdType ==
  ASSUME NEW l \in Local, NEW cmd \in Command
  PROVE  OnSetCmd(l, cmd) \in Local
<1>1. CASE ~Decodes(cmd)
  BY <1>1 DEF OnSetCmd
<1>2. CASE Decodes(cmd)
  <2>1. CommandAgent[cmd] \in Agent
    BY <1>2, CommandAssumption DEF CommandAssumption, Decodes, Agent, Coding
  <2> DEFINE active == CommandAgent[cmd] \in Coding
             agent == CommandAgent[cmd]
  <2>2. active \in BOOLEAN
    OBVIOUS
  <2>3. [l EXCEPT !.agent = agent, !.command = cmd, !.pending = "none",
                  !.sessionActive = active, !.markerAge = Hold] \in Local
    <3>1. agent \in Agent
      BY <2>1
    <3> HIDE DEF active, agent
    <3> QED BY <3>1, <2>2, IntervalType DEF Local
  <2> QED BY <1>2, <2>3 DEF OnSetCmd
<1> QED BY <1>1, <1>2

LEMMA OnNewPromptType ==
  ASSUME NEW l \in Local
  PROVE  OnNewPrompt(l) \in Local
<1> DEFINE left == IF l.agent \in Coding THEN l.agent ELSE l.pending
<1>1. left \in Coding \cup {"none"}
  BY DEF Local
<1>2. [l EXCEPT !.pending = left, !.agent = "shell", !.command = NoCommand,
                !.commandRunning = FALSE, !.sessionActive = FALSE,
                !.markerAge = Hold] \in Local
  <2> HIDE DEF left
  <2> QED BY <1>1, AgentType, IntervalType DEF Local
<1> QED BY <1>2 DEF OnNewPrompt

LEMMA NoteOutputType ==
  ASSUME NEW l \in Local, NEW scr
  PROVE  NoteOutput(l, scr) \in Local
<1> DEFINE agent == DetectAgent(l, scr)
           seen == agent # "unknown" /\ WorkingMarkerP(agent, scr)
           age == IF seen THEN 0 ELSE l.markerAge
<1>1. agent \in Agent
  BY DetectAgentType
<1>2. age \in 0 .. Hold
  <2> HIDE DEF seen
  <2> QED BY IntervalType DEF Local
<1>3. [l EXCEPT !.outputAge = 0, !.agent = agent, !.markerAge = age] \in Local
  <2> HIDE DEF agent, age
  <2> QED BY <1>1, <1>2, IntervalType DEF Local
<1> QED BY <1>3 DEF NoteOutput

LEMMA OnExitType ==
  ASSUME NEW l \in Local
  PROVE  OnExit(l) \in Local
  BY DEF OnExit, Local

LEMMA RefreshMarkerType ==
  ASSUME NEW l \in Local, NEW scr
  PROVE  RefreshMarker(l, scr) \in Local
  BY IntervalAssumption DEF IntervalAssumption, RefreshMarker, Local

LEMMA DetectStateType ==
  ASSUME NEW l, NEW scr, NEW processLive
  PROVE  DetectState(l, scr, processLive) \in State
  BY DEF DetectState, State

LEMMA SurveyedType ==
  ASSUME NEW l \in Local, NEW scr, NEW processLive
  PROVE  Surveyed(l, scr, processLive) \in Local
<1> DEFINE named == [l EXCEPT !.agent = DetectAgent(l, scr)]
           m == RefreshMarker(named, scr)
           new == DetectState(m, scr, processLive)
<1>1. named \in Local
  BY DetectAgentType DEF Local
<1>2. m \in Local
  BY <1>1, RefreshMarkerType
<1>3. new \in State
  BY DetectStateType
<1>4. [m EXCEPT !.lastState = m.state, !.state = new,
                !.stateAge = 0, !.idleAlerted = FALSE] \in Local
  <2> HIDE DEF m, new
  <2> QED BY <1>2, <1>3, IntervalType DEF Local
<1> QED BY <1>2, <1>4 DEF Surveyed, Entered

LEMMA AlertIdleType ==
  ASSUME NEW l \in Local
  PROVE  AlertIdle(l) \in Local
<1> DEFINE agent == IF l.pending # "none" THEN "shell" ELSE l.agent
<1>1. agent \in Agent
  BY AgentType DEF Local
<1>2. [l EXCEPT !.idleAlerted = TRUE, !.agent = agent, !.pending = "none"] \in Local
  <2> HIDE DEF agent
  <2> QED BY <1>1 DEF Local
<1> QED BY <1>2 DEF AlertIdle

LEMMA OlderType ==
  ASSUME NEW l \in Local
  PROVE  Older(l) \in Local
<1> DEFINE o == IF l.outputAge < Grace THEN l.outputAge + 1 ELSE l.outputAge
           m == IF l.markerAge < Hold THEN l.markerAge + 1 ELSE l.markerAge
           st == IF l.stateAge < Debounce THEN l.stateAge + 1 ELSE l.stateAge
<1>1. l.outputAge \in 0 .. Grace /\ l.markerAge \in 0 .. Hold /\ l.stateAge \in 0 .. Debounce
  BY DEF Local
<1>2. o \in 0 .. Grace /\ m \in 0 .. Hold /\ st \in 0 .. Debounce
  BY <1>1, IntervalAssumption DEF IntervalAssumption
<1>3. [l EXCEPT !.outputAge = o, !.markerAge = m, !.stateAge = st] \in Local
  <2> HIDE DEF o, m, st
  <2> QED BY <1>2 DEF Local
<1> QED BY <1>3 DEF Older

-----------------------------------------------------------------------------
(* The notifications, the list and the counts. *)

LEMMA NotifyType ==
  ASSUME NEW b \in Buffer, NEW kind \in {"approval", "done", "exited"}, NEW agent
  PROVE  Notify(b, kind, agent) \subseteq
           (Buffer \X {"approval", "done", "exited"} \X Coding)
  BY DEF Notify

LEMMA WithoutType ==
  ASSUME NEW list \in Seq(Buffer), NEW b
  PROVE  Without(list, b) \in Seq(Buffer)
<1>1. CASE \E i \in DOMAIN list : list[i] = b
  <2> DEFINE i == CHOOSE j \in DOMAIN list : list[j] = b
  <2>1. i \in 1 .. Len(list)
    BY <1>1
  <2>2. SubSeq(list, 1, i - 1) \in Seq(Buffer) /\ SubSeq(list, i + 1, Len(list)) \in Seq(Buffer)
    <3> HIDE DEF i
    <3> QED BY <2>1
  <2> QED BY <1>1, <2>2 DEF Without
<1>2. CASE ~\E i \in DOMAIN list : list[i] = b
  BY <1>2 DEF Without
<1> QED BY <1>1, <1>2

LEMMA CountsType ==
  ASSUME TypeOK, NEW l
  PROVE  Counts(l) \in [awaiting : Nat, working : Nat]
<1>1. Listed \subseteq Buffer
  BY DEF TypeOK, Listed
<1>2. \A S \in SUBSET Listed : Cardinality(S) \in Nat
  BY <1>1, BufferAssumption, FS_Subset, FS_CardinalityType DEF BufferAssumption
<1>3. Cardinality({b \in Listed : l[b].state = "awaiting"}) \in Nat
  BY <1>2
<1>4. Cardinality({b \in Listed : l[b].state \in {"working", "running"}}) \in Nat
  BY <1>2
<1> QED BY <1>3, <1>4 DEF Counts

-----------------------------------------------------------------------------
(* Type correctness.  A timer is only cancelled while the variable holds one, *)
(* so that TypeOK is inductive together with the count of the timers.         *)

TypeInv == TypeOK /\ TimersAccounted

LEMMA TypeInit == Init => TypeInv
<1> SUFFICES ASSUME Init PROVE TypeInv
  OBVIOUS
<1>1. loc \in [Buffer -> Local] /\ screen \in [Buffer -> Screens]
  BY DefaultLocalType, ScreensAssumption DEF ScreensAssumption, Init
<1>2. bufferList \in Seq(Buffer) /\ alerts = {}
  BY DEF Init
<1>3. modeLine \in [awaiting : Nat, working : Nat]
  BY DEF Init, Blank
<1>4. status \in [Buffer -> {"absent", "live", "dead", "left", "stuck"}]
      /\ shell \in [Buffer -> {"starting", "prompt", "announced", "running"}]
      /\ watched \in [Buffer -> BOOLEAN]
  BY DEF Init
<1>5. mode \in BOOLEAN /\ held \in BOOLEAN /\ timers \in Nat /\ TimersAccounted
  BY DEF Init, TimersAccounted
<1>6. notifier \in {"ok", "broken"} /\ toggles \in 0 .. MaxToggles
      /\ reloads \in 0 .. MaxReloads
  BY BoundAssumption DEF BoundAssumption, Init
<1> QED BY <1>1, <1>2, <1>3, <1>4, <1>5, <1>6 DEF TypeInv, TypeOK

\* What the steps of one terminal leave alone.
LEMMA SupervisionType ==
  ASSUME TypeInv, UNCHANGED supervision
  PROVE  /\ mode' \in BOOLEAN /\ held' \in BOOLEAN /\ timers' \in Nat
         /\ modeLine' \in [awaiting : Nat, working : Nat]
         /\ notifier' \in {"ok", "broken"}
         /\ toggles' \in 0 .. MaxToggles /\ reloads' \in 0 .. MaxReloads
         /\ TimersAccounted'
  BY DEF TypeInv, TypeOK, TimersAccounted, supervision

LEMMA DiscardType ==
  ASSUME TypeInv, NEW b \in Buffer, Discard(b)
  PROVE  /\ status' \in [Buffer -> {"absent", "live", "dead", "left", "stuck"}]
         /\ shell' \in [Buffer -> {"starting", "prompt", "announced", "running"}]
         /\ screen' \in [Buffer -> Screens]
         /\ loc' \in [Buffer -> Local]
         /\ bufferList' \in Seq(Buffer)
         /\ watched' \in [Buffer -> BOOLEAN]
<1>1. status' \in [Buffer -> {"absent", "live", "dead", "left", "stuck"}]
      /\ shell' \in [Buffer -> {"starting", "prompt", "announced", "running"}]
      /\ watched' \in [Buffer -> BOOLEAN]
  BY DEF Discard, TypeInv, TypeOK
<1>2. screen' \in [Buffer -> Screens]
  BY ScreensAssumption DEF ScreensAssumption, Discard, TypeInv, TypeOK
<1>3. loc' \in [Buffer -> Local]
  BY DefaultLocalType DEF Discard, TypeInv, TypeOK
<1>4. bufferList' \in Seq(Buffer)
  BY WithoutType DEF Discard, TypeInv, TypeOK
<1> QED BY <1>1, <1>2, <1>3, <1>4

\* To the supervisor, a change of the windows is output that prints nothing.
LEMMA WindowChangeIsOutput ==
  ASSUME TypeInv, NEW b \in Buffer, WindowChange(b)
  PROVE  screen[b] \in Screens /\ PlainOutput(b, screen[b])
BY DEF WindowChange, PlainOutput, HasProcess, TypeInv, TypeOK

LEMMA OutputType ==
  ASSUME TypeInv, NEW b \in Buffer, NEW scr \in Screens, NEW handled \in Local,
         Output(b, scr, handled),
         shell' \in [Buffer -> {"starting", "prompt", "announced", "running"}]
  PROVE  TypeInv'
<1>1. UNCHANGED <<status, bufferList, watched>> /\ UNCHANGED supervision /\ alerts' = {}
  BY DEF Output
<1>2. screen' \in [Buffer -> Screens]
  BY DEF Output, TypeInv, TypeOK
<1>3. loc' \in [Buffer -> Local]
  <2> DEFINE new == NoteOutput(IF mode THEN handled ELSE loc[b], scr)
  <2>1. loc[b] \in Local
    BY DEF TypeInv, TypeOK
  <2>2. (IF mode THEN handled ELSE loc[b]) \in Local
    BY <2>1
  <2>3. new \in Local
    BY <2>2, NoteOutputType
  <2>4. loc' = [loc EXCEPT ![b] = new]
    BY DEF Output
  <2> HIDE DEF new
  <2> QED BY <2>3, <2>4 DEF TypeInv, TypeOK
<1> QED BY <1>1, <1>2, <1>3, SupervisionType DEF TypeInv, TypeOK

LEMMA TerminalType ==
  ASSUME TypeInv, NEW b \in Buffer, TerminalStep(b)
  PROVE  TypeInv'
<1>0. loc[b] \in Local
  BY DEF TypeInv, TypeOK
<1>1. CASE StartTerminal(b)
  <2>1. loc' \in [Buffer -> Local]
    BY <1>1, DefaultLocalType DEF StartTerminal, OnExec, TypeInv, TypeOK
  <2>2. screen' \in [Buffer -> Screens]
    BY <1>1, ScreensAssumption DEF ScreensAssumption, StartTerminal, TypeInv, TypeOK
  <2>3. bufferList' \in Seq(Buffer)
    BY <1>1 DEF StartTerminal, OnExec, TypeInv, TypeOK
  <2>4. status' \in [Buffer -> {"absent", "live", "dead", "left", "stuck"}]
        /\ shell' \in [Buffer -> {"starting", "prompt", "announced", "running"}]
        /\ watched' \in [Buffer -> BOOLEAN] /\ alerts' = {}
    BY <1>1 DEF StartTerminal, OnExec, TypeInv, TypeOK
  <2>5. UNCHANGED supervision
    BY <1>1 DEF StartTerminal
  <2> QED BY <2>1, <2>2, <2>3, <2>4, <2>5, SupervisionType DEF TypeInv, TypeOK
<1>2. ASSUME NEW scr \in Screens, PlainOutput(b, scr) PROVE TypeInv'
  BY <1>0, <1>2, OutputType DEF PlainOutput, TypeInv, TypeOK
<1>3. ASSUME NEW scr \in Screens, NewPrompt(b, scr) PROVE TypeInv'
  <2>1. shell' \in [Buffer -> {"starting", "prompt", "announced", "running"}]
    BY <1>3 DEF NewPrompt, TypeInv, TypeOK
  <2> QED BY <1>0, <1>3, <2>1, OnNewPromptType, OutputType DEF NewPrompt
<1>4. ASSUME NEW scr \in Screens, NEW cmd \in Command, SetCmd(b, scr, cmd) PROVE TypeInv'
  <2>1. shell' \in [Buffer -> {"starting", "prompt", "announced", "running"}]
    BY <1>4 DEF SetCmd, TypeInv, TypeOK
  <2> QED BY <1>0, <1>4, <2>1, OnSetCmdType, OutputType DEF SetCmd
<1>5. ASSUME NEW scr \in Screens, PreCmd(b, scr) PROVE TypeInv'
  <2>1. shell' \in [Buffer -> {"starting", "prompt", "announced", "running"}]
    BY <1>5 DEF PreCmd, TypeInv, TypeOK
  <2> QED BY <1>0, <1>5, <2>1, OnPreCmdType, OutputType DEF PreCmd
<1>6. ASSUME NEW scr \in Screens, Resize(b, scr) PROVE TypeInv'
  <2>1. screen' \in [Buffer -> Screens]
    BY <1>6 DEF Resize, TypeInv, TypeOK
  <2>2. UNCHANGED supervision
    BY <1>6 DEF Resize
  <2> QED BY <1>6, <2>1, <2>2, SupervisionType DEF Resize, TypeInv, TypeOK
<1>7. CASE ProcessDies(b)
  <2>1. UNCHANGED supervision
    BY <1>7 DEF ProcessDies
  <2> QED BY <1>7, <2>1, SupervisionType DEF ProcessDies, TypeInv, TypeOK
<1>8. CASE Sentinel(b)
  <2> DEFINE last == NoteOutput(loc[b], screen[b])
             due == IF mode THEN Notify(b, "exited", last.agent) ELSE {}
  <2>1. UNCHANGED supervision
    BY <1>8 DEF Sentinel
  <2>2. due \subseteq (Buffer \X {"approval", "done", "exited"} \X Coding)
    BY NotifyType
  <2>3. CASE due # {} /\ notifier = "broken"
    <3>0. OnExit(last) \in Local
      BY <1>0, NoteOutputType, OnExitType
    <3>1. loc' = [loc EXCEPT ![b] = OnExit(last)]
      BY <1>8, <2>3 DEF Sentinel
    <3>4. loc' \in [Buffer -> Local]
      <4> HIDE DEF last
      <4> QED BY <3>0, <3>1 DEF TypeInv, TypeOK
    <3>2. status' \in [Buffer -> {"absent", "live", "dead", "left", "stuck"}]
          /\ alerts' = {} /\ UNCHANGED <<shell, screen, bufferList, watched>>
      BY <1>8, <2>3 DEF Sentinel, TypeInv, TypeOK
    <3> QED BY <2>1, <3>4, <3>2, SupervisionType DEF TypeInv, TypeOK
  <2>4. CASE ~(due # {} /\ notifier = "broken")
    <3>1. alerts' = due /\ Discard(b)
      BY <1>8, <2>4 DEF Sentinel
    <3> HIDE DEF due
    <3> QED BY <2>1, <2>2, <3>1, DiscardType, SupervisionType DEF TypeInv, TypeOK
  <2> QED BY <2>3, <2>4
<1>9. CASE KillBuffer(b)
  BY <1>9, DiscardType, SupervisionType DEF KillBuffer, TypeInv, TypeOK
<1>10. CASE WindowChange(b)
  BY <1>0, <1>2, <1>10, WindowChangeIsOutput
<1>11. ASSUME NEW scr \in Screens, DrainFails(b, scr) PROVE TypeInv'
  <2>1. screen' \in [Buffer -> Screens]
        /\ status' \in [Buffer -> {"absent", "live", "dead", "left", "stuck"}]
    BY <1>11 DEF DrainFails, TypeInv, TypeOK
  <2>2. UNCHANGED supervision
    BY <1>11 DEF DrainFails
  <2> QED BY <1>11, <2>1, <2>2, SupervisionType DEF DrainFails, TypeInv, TypeOK
<1> QED BY <1>1, <1>2, <1>3, <1>4, <1>5, <1>6, <1>7, <1>8, <1>9, <1>10, <1>11
        DEF TerminalStep

LEMMA SurveyType ==
  ASSUME TypeInv, NEW b \in Buffer
  PROVE  /\ Survey(b) \in Local /\ AlertIdle(Survey(b)) \in Local
         /\ DueAlerts(b) \subseteq (Buffer \X {"approval", "done", "exited"} \X Coding)
<1>1. Survey(b) \in Local
  BY SurveyedType DEF Survey, TypeInv, TypeOK
<1>2. AlertIdle(Survey(b)) \in Local
  BY <1>1, AlertIdleType
<1>3. DueAlerts(b) \subseteq (Buffer \X {"approval", "done", "exited"} \X Coding)
  BY NotifyType DEF DueAlerts
<1> QED BY <1>1, <1>2, <1>3

LEMMA ScanType ==
  ASSUME TypeInv, Scan
  PROVE  TypeInv'
<1>1. loc' \in [Buffer -> Local]
  <2>1. \A b \in Buffer : loc[b] \in Local /\ Survey(b) \in Local /\ AlertIdle(Survey(b)) \in Local
    BY SurveyType DEF TypeInv, TypeOK
  <2> QED BY <2>1 DEF Scan
<1>2. alerts' \subseteq (Buffer \X {"approval", "done", "exited"} \X Coding)
  <2>1. PICK scanned \in SUBSET Listed : alerts' = UNION {DueAlerts(b) : b \in scanned}
    BY DEF Scan, Listed
  <2>2. scanned \subseteq Buffer
    BY <2>1 DEF Listed, TypeInv, TypeOK
  <2>3. \A b \in scanned : DueAlerts(b) \subseteq (Buffer \X {"approval", "done", "exited"} \X Coding)
    BY <2>2, SurveyType
  <2> QED BY <2>1, <2>3
<1>3. modeLine' \in [awaiting : Nat, working : Nat]
  BY CountsType DEF Scan, TypeInv, TypeOK
<1>4. UNCHANGED <<status, shell, screen, bufferList, watched, mode, held, timers,
                  notifier, toggles, reloads>>
  BY DEF Scan
<1> QED BY <1>1, <1>2, <1>3, <1>4 DEF TypeInv, TypeOK, TimersAccounted

LEMMA EnableBodyType ==
  ASSUME TypeInv, EnableBody, toggles' \in 0 .. MaxToggles, reloads' \in 0 .. MaxReloads
  PROVE  TypeOK'
<1>1. loc' \in [Buffer -> Local]
  BY DefaultLocalType DEF EnableBody, TypeInv, TypeOK
<1>2. watched' \in [Buffer -> BOOLEAN] /\ timers' \in Nat
  BY DEF EnableBody, TypeInv, TypeOK
<1> QED BY <1>1, <1>2 DEF EnableBody, TypeInv, TypeOK

LEMMA TypeStep == TypeInv /\ [Next]_vars => TypeInv'
<1> SUFFICES ASSUME TypeInv, [Next]_vars PROVE TypeInv'
  OBVIOUS
<1>1. ASSUME NEW b \in Buffer, TerminalStep(b) PROVE TypeInv'
  BY <1>1, TerminalType
<1>2. CASE Scan
  BY <1>2, ScanType
<1>3. CASE Enable
  <2>1. toggles' \in 0 .. MaxToggles /\ reloads' \in 0 .. MaxReloads /\ EnableBody
    BY <1>3, BoundAssumption DEF BoundAssumption, Enable, TypeInv, TypeOK
  <2>2. TimersAccounted'
    BY <1>3, <2>1 DEF Enable, EnableBody, TypeInv, TypeOK, TimersAccounted
  <2> QED BY <2>1, <2>2, EnableBodyType DEF TypeInv
<1>4. CASE Reload
  <2>1. toggles' \in 0 .. MaxToggles /\ reloads' \in 0 .. MaxReloads /\ EnableBody
    BY <1>4, BoundAssumption DEF BoundAssumption, Reload, TypeInv, TypeOK
  <2>2. TimersAccounted'
    BY <1>4, <2>1 DEF Reload, EnableBody, TypeInv, TypeOK, TimersAccounted
  <2> QED BY <2>1, <2>2, EnableBodyType DEF TypeInv
<1>5. CASE Disable
  <2>1. timers' \in Nat /\ TimersAccounted'
    <3>1. mode = TRUE /\ held = TRUE
      BY <1>5 DEF Disable, TypeInv, TypeOK, TimersAccounted
    <3>2. timers = 1 + reloads /\ reloads \in Nat
      BY <3>1 DEF TypeInv, TypeOK, TimersAccounted
    <3>3. timers' = timers - 1 /\ mode' = FALSE /\ held' = FALSE /\ reloads' = reloads
      BY <1>5, <3>1 DEF Disable, CancelTimer
    <3>4. timers' = 0 + reloads' /\ timers' \in Nat
      BY <3>2, <3>3
    <3>5. held' = mode' /\ (IF mode' THEN 1 ELSE 0) = 0
      BY <3>3
    <3> QED BY <3>4, <3>5 DEF TimersAccounted
  <2>2. watched' \in [Buffer -> BOOLEAN] /\ modeLine' \in [awaiting : Nat, working : Nat]
    BY <1>5 DEF Disable, Blank
  <2>3. toggles' \in 0 .. MaxToggles
    BY <1>5, BoundAssumption DEF BoundAssumption, Disable, TypeInv, TypeOK
  <2>4. mode' \in BOOLEAN /\ held' \in BOOLEAN /\ alerts' = {}
    BY <1>5 DEF Disable
  <2>5. UNCHANGED <<status, shell, screen, loc, bufferList, notifier, reloads>>
    BY <1>5 DEF Disable
  <2> QED BY <2>1, <2>2, <2>3, <2>4, <2>5 DEF TypeInv, TypeOK
<1>6. CASE Tick
  <2>1. loc' \in [Buffer -> Local]
    BY <1>6, OlderType DEF Tick, TypeInv, TypeOK
  <2>2. UNCHANGED supervision
    BY <1>6 DEF Tick
  <2> QED BY <1>6, <2>1, <2>2, SupervisionType DEF Tick, TypeInv, TypeOK
<1>7. CASE LoseNotifier
  BY <1>7 DEF LoseNotifier, TypeInv, TypeOK, TimersAccounted
<1>8. CASE UNCHANGED vars
  BY <1>8 DEF vars, TypeInv, TypeOK, TimersAccounted
<1> QED BY <1>1, <1>2, <1>3, <1>4, <1>5, <1>6, <1>7, <1>8 DEF Next

\* Every variable of the supervisor always has its type: no handler, in any
\* order, leaves the records of eat-supervisor.el malformed.
THEOREM TypeCorrect == Spec => []TypeOK
<1>1. TypeInv => TypeOK
  BY DEF TypeInv
<1> QED BY <1>1, TypeInit, TypeStep, PTL DEF Spec

\* One scan timer while the mode is on, none while it is off, one more for
\* every time eat-term.el was loaded again.
THEOREM TimersAlwaysAccounted == Spec => []TimersAccounted
<1>1. TypeInv => TimersAccounted
  BY DEF TypeInv
<1> QED BY <1>1, TypeInit, TypeStep, PTL DEF Spec

-----------------------------------------------------------------------------
(* The record of a session.  The three invariants of the runs speak of the    *)
(* variables of one buffer each, and every handler preserves their            *)
(* conjunction, whatever the screen shows.                                    *)

SessionConsistent(l) ==
  /\ l.pending # "none" =>
       l.agent = "shell" /\ l.sessionActive = FALSE /\ l.command = NoCommand
  /\ l.command # NoCommand => l.agent = CommandAgent[l.command]
  /\ l.sessionActive = TRUE => l.agent \in Coding
  /\ l.idleAlerted = TRUE => l.state = "idle"

LEMMA FreshConsistent == SessionConsistent(DefaultLocal) /\ SessionConsistent(InitBuffer)
  BY DefaultLocalType DEF SessionConsistent, DefaultLocal, InitBuffer

\* Text detection only renames an unknown agent, which no session has.
LEMMA DetectConsistent ==
  ASSUME NEW l \in Local, SessionConsistent(l), NEW scr
  PROVE  SessionConsistent([l EXCEPT !.agent = DetectAgent(l, scr)])
<1>1. CASE l.agent # "unknown"
  <2>1. DetectAgent(l, scr) = l.agent
    BY <1>1 DEF DetectAgent
  <2>2. [l EXCEPT !.agent = l.agent] = l
    BY DEF Local
  <2> QED BY <2>1, <2>2
<1>2. CASE l.agent = "unknown"
  <2>1. l.pending = "none"
    BY <1>2 DEF SessionConsistent
  <2>2. l.command = NoCommand
    BY <1>2, CommandAssumption DEF CommandAssumption, SessionConsistent, Local, Coding
  <2>3. l.sessionActive = FALSE
    BY <1>2 DEF SessionConsistent, Local, Coding
  <2> QED BY <2>1, <2>2, <2>3 DEF SessionConsistent, Local
<1> QED BY <1>1, <1>2

LEMMA HandlersConsistent ==
  ASSUME NEW l \in Local, SessionConsistent(l)
  PROVE  /\ SessionConsistent(OnPreCmd(l))
         /\ SessionConsistent(OnNewPrompt(l))
         /\ SessionConsistent(OnExit(l))
         /\ SessionConsistent(AlertIdle(l))
         /\ SessionConsistent(Older(l))
<1>1. SessionConsistent(OnPreCmd(l))
  BY DEF OnPreCmd, SessionConsistent, Local
<1>2. SessionConsistent(OnNewPrompt(l))
  BY DEF OnNewPrompt, SessionConsistent, Local
<1>3. SessionConsistent(OnExit(l))
  BY DEF OnExit, SessionConsistent, Local
<1>4. SessionConsistent(AlertIdle(l))
  BY DEF AlertIdle, IdleAlertDue, SessionConsistent, Local
<1>5. SessionConsistent(Older(l))
  <2>1. PICK o, m, st :
          Older(l) = [l EXCEPT !.outputAge = o, !.markerAge = m, !.stateAge = st]
    BY DEF Older
  <2> QED BY <2>1 DEF SessionConsistent, Local
<1> QED BY <1>1, <1>2, <1>3, <1>4, <1>5

LEMMA OnSetCmdConsistent ==
  ASSUME NEW l \in Local, SessionConsistent(l), NEW cmd \in Command
  PROVE  SessionConsistent(OnSetCmd(l, cmd))
<1>1. CASE ~Decodes(cmd)
  BY <1>1 DEF OnSetCmd
<1>2. CASE Decodes(cmd)
  <2> DEFINE active == CommandAgent[cmd] \in Coding
  <2>1. active = TRUE => CommandAgent[cmd] \in Coding
    OBVIOUS
  <2>2. OnSetCmd(l, cmd) = [l EXCEPT !.agent = CommandAgent[cmd], !.command = cmd,
                              !.pending = "none", !.sessionActive = active,
                              !.markerAge = Hold]
    BY <1>2 DEF OnSetCmd
  <2> HIDE DEF active
  <2>3. l.idleAlerted = TRUE => l.state = "idle"
    BY DEF SessionConsistent
  <2> QED BY <2>1, <2>2, <2>3 DEF SessionConsistent, Local
<1> QED BY <1>1, <1>2

LEMMA NoteOutputConsistent ==
  ASSUME NEW l \in Local, SessionConsistent(l), NEW scr
  PROVE  SessionConsistent(NoteOutput(l, scr))
<1> DEFINE named == [l EXCEPT !.agent = DetectAgent(l, scr)]
<1>1. named \in Local /\ SessionConsistent(named)
  BY DetectAgentType, DetectConsistent DEF Local
<1>2. PICK age : NoteOutput(l, scr) = l \/
                 NoteOutput(l, scr) = [l EXCEPT !.outputAge = 0, !.agent = DetectAgent(l, scr),
                                                !.markerAge = age]
  BY DEF NoteOutput
<1>3. CASE NoteOutput(l, scr) = l
  BY <1>3
<1>4. CASE NoteOutput(l, scr) = [l EXCEPT !.outputAge = 0, !.agent = DetectAgent(l, scr),
                                          !.markerAge = age]
  BY <1>1, <1>4 DEF SessionConsistent, Local
<1> QED BY <1>2, <1>3, <1>4

LEMMA SurveyedConsistent ==
  ASSUME NEW l \in Local, SessionConsistent(l), NEW scr, NEW processLive
  PROVE  SessionConsistent(Surveyed(l, scr, processLive))
<1> DEFINE named == [l EXCEPT !.agent = DetectAgent(l, scr)]
           m == RefreshMarker(named, scr)
           new == DetectState(m, scr, processLive)
<1>1. named \in Local /\ SessionConsistent(named)
  BY DetectAgentType, DetectConsistent DEF Local
<1>2. m \in Local /\ SessionConsistent(m)
  <2> HIDE DEF named
  <2>1. m \in Local
    BY <1>1, RefreshMarkerType
  <2>2. m = named \/ m = [named EXCEPT !.markerAge = 0]
    BY DEF RefreshMarker
  <2> HIDE DEF m
  <2> QED BY <1>1, <2>1, <2>2 DEF SessionConsistent, Local
<1>3. SessionConsistent([m EXCEPT !.lastState = m.state, !.state = new,
                                  !.stateAge = 0, !.idleAlerted = FALSE])
  <2> HIDE DEF m, new
  <2> QED BY <1>2 DEF SessionConsistent, Local
<1> QED BY <1>2, <1>3 DEF Surveyed, Entered

SessionInv == TypeInv /\ \A b \in Buffer : SessionConsistent(loc[b])

LEMMA SessionInit == Init => SessionInv
  BY TypeInit, FreshConsistent DEF Init, SessionInv

\* One buffer's variables change, to consistent ones.
LEMMA OneBufferConsistent ==
  ASSUME SessionInv, NEW b \in Buffer, NEW l,
         SessionConsistent(l), loc' = [loc EXCEPT ![b] = l]
  PROVE  \A c \in Buffer : SessionConsistent(loc'[c])
<1> SUFFICES ASSUME NEW c \in Buffer PROVE SessionConsistent(loc'[c])
  OBVIOUS
<1>1. CASE c = b
  <2>1. loc'[c] = l
    BY <1>1 DEF SessionInv, TypeInv, TypeOK
  <2> QED BY <2>1
<1>2. CASE c # b
  <2>1. loc'[c] = loc[c]
    BY <1>2 DEF SessionInv, TypeInv, TypeOK
  <2> QED BY <2>1 DEF SessionInv
<1> QED BY <1>1, <1>2

LEMMA OutputConsistent ==
  ASSUME SessionInv, NEW b \in Buffer, NEW scr \in Screens, NEW handled \in Local,
         SessionConsistent(handled), Output(b, scr, handled)
  PROVE  \A c \in Buffer : SessionConsistent(loc'[c])
<1> DEFINE before == IF mode THEN handled ELSE loc[b]
           after == NoteOutput(before, scr)
<1>1. before \in Local /\ SessionConsistent(before)
  BY DEF SessionInv, TypeInv, TypeOK
<1>2. SessionConsistent(after)
  <2> HIDE DEF before
  <2> QED BY <1>1, NoteOutputConsistent
<1>3. loc' = [loc EXCEPT ![b] = after]
  BY DEF Output
<1> HIDE DEF after
<1> QED BY <1>2, <1>3, OneBufferConsistent

LEMMA SessionStep == SessionInv /\ [Next]_vars => SessionInv'
<1> SUFFICES ASSUME SessionInv, [Next]_vars
             PROVE  \A c \in Buffer : SessionConsistent(loc'[c])
  BY TypeStep DEF SessionInv
<1>0. \A b \in Buffer : loc[b] \in Local /\ SessionConsistent(loc[b])
  BY DEF SessionInv, TypeInv, TypeOK
<1>1. ASSUME NEW b \in Buffer, TerminalStep(b)
      PROVE  \A c \in Buffer : SessionConsistent(loc'[c])
  <2>1. CASE StartTerminal(b)
    BY <1>0, <2>1, FreshConsistent, OneBufferConsistent DEF StartTerminal
  <2>2. ASSUME NEW scr \in Screens, PlainOutput(b, scr)
        PROVE  \A c \in Buffer : SessionConsistent(loc'[c])
    BY <1>0, <2>2, OutputConsistent DEF PlainOutput
  <2>3. ASSUME NEW scr \in Screens, NewPrompt(b, scr)
        PROVE  \A c \in Buffer : SessionConsistent(loc'[c])
    BY <1>0, <2>3, OnNewPromptType, HandlersConsistent, OutputConsistent DEF NewPrompt
  <2>4. ASSUME NEW scr \in Screens, NEW cmd \in Command, SetCmd(b, scr, cmd)
        PROVE  \A c \in Buffer : SessionConsistent(loc'[c])
    BY <1>0, <2>4, OnSetCmdType, OnSetCmdConsistent, OutputConsistent DEF SetCmd
  <2>5. ASSUME NEW scr \in Screens, PreCmd(b, scr)
        PROVE  \A c \in Buffer : SessionConsistent(loc'[c])
    BY <1>0, <2>5, OnPreCmdType, HandlersConsistent, OutputConsistent DEF PreCmd
  <2>6. ASSUME NEW scr \in Screens, Resize(b, scr)
        PROVE  \A c \in Buffer : SessionConsistent(loc'[c])
    BY <1>0, <2>6 DEF Resize
  <2>7. CASE ProcessDies(b)
    BY <1>0, <2>7 DEF ProcessDies
  <2>8. CASE Sentinel(b)
    <3> DEFINE last == NoteOutput(loc[b], screen[b])
    <3>0. last \in Local /\ SessionConsistent(OnExit(last))
      BY <1>0, NoteOutputType, NoteOutputConsistent, HandlersConsistent
    <3>1. CASE loc' = [loc EXCEPT ![b] = OnExit(last)]
      <4> HIDE DEF last
      <4> QED BY <3>0, <3>1, OneBufferConsistent
    <3>2. CASE Discard(b)
      BY <3>2, FreshConsistent, OneBufferConsistent DEF Discard
    <3> QED BY <2>8, <3>1, <3>2 DEF Sentinel
  <2>9. CASE KillBuffer(b)
    BY <2>9, FreshConsistent, OneBufferConsistent DEF KillBuffer, Discard
  <2>10. CASE WindowChange(b)
    BY <1>0, <2>2, <2>10, WindowChangeIsOutput DEF SessionInv
  <2>11. ASSUME NEW scr \in Screens, DrainFails(b, scr)
         PROVE  \A c \in Buffer : SessionConsistent(loc'[c])
    BY <1>0, <2>11 DEF DrainFails
  <2> QED BY <1>1, <2>1, <2>2, <2>3, <2>4, <2>5, <2>6, <2>7, <2>8, <2>9, <2>10, <2>11
          DEF TerminalStep
<1>2. CASE Scan
  <2> SUFFICES ASSUME NEW c \in Buffer PROVE SessionConsistent(loc'[c])
    OBVIOUS
  <2>1. Survey(c) \in Local /\ SessionConsistent(Survey(c))
    BY <1>0, SurveyedType, SurveyedConsistent DEF Survey
  <2>2. SessionConsistent(AlertIdle(Survey(c)))
    BY <2>1, HandlersConsistent
  <2>3. loc'[c] = AlertIdle(Survey(c)) \/ loc'[c] = Survey(c) \/ loc'[c] = loc[c]
    BY <1>2 DEF Scan
  <2> QED BY <1>0, <2>1, <2>2, <2>3
<1>3. CASE EnableBody
  BY <1>0, <1>3, FreshConsistent DEF EnableBody
<1>4. CASE Disable
  BY <1>0, <1>4 DEF Disable
<1>5. CASE Tick
  BY <1>0, <1>5, HandlersConsistent DEF Tick
<1>6. CASE LoseNotifier
  BY <1>0, <1>6 DEF LoseNotifier
<1>7. CASE UNCHANGED vars
  BY <1>0, <1>7 DEF vars
<1> QED BY <1>1, <1>2, <1>3, <1>4, <1>5, <1>6, <1>7 DEF Next, Enable, Reload

LEMMA SessionInvariant == Spec => []SessionInv
  BY SessionInit, SessionStep, PTL DEF Spec

\* The end of a session never waits to be reported beside an agent that owns
\* the terminal.
THEOREM PendingAlwaysExcludesSession == Spec => []PendingExcludesSession
<1>1. SessionInv => PendingExcludesSession
  BY DEF SessionInv, SessionConsistent, PendingExcludesSession
<1> QED BY <1>1, SessionInvariant, PTL

\* The agent named by an alert is the one of the command that runs.
THEOREM CommandAlwaysNamesAgent == Spec => []CommandNamesAgent
<1>1. SessionInv => CommandNamesAgent
  <2> SUFFICES ASSUME SessionInv, NEW b \in Buffer
               PROVE  /\ loc[b].command # NoCommand => loc[b].agent = CommandAgent[loc[b].command]
                      /\ loc[b].sessionActive => loc[b].agent \in Coding
    BY DEF CommandNamesAgent
  <2>1. loc[b].sessionActive \in BOOLEAN
    BY DEF SessionInv, TypeInv, TypeOK, Local
  <2> QED BY <2>1 DEF SessionInv, SessionConsistent
<1> QED BY <1>1, SessionInvariant, PTL

\* The idle alert is only marked as sent in the idle state it was sent for.
THEOREM IdleAlertedOnlyWhileIdle == Spec => []IdleAlertedWhileIdle
<1>1. SessionInv => IdleAlertedWhileIdle
  <2> SUFFICES ASSUME SessionInv, NEW b \in Buffer
               PROVE  loc[b].idleAlerted => loc[b].state = "idle"
    BY DEF IdleAlertedWhileIdle
  <2>1. loc[b].idleAlerted \in BOOLEAN
    BY DEF SessionInv, TypeInv, TypeOK, Local
  <2> QED BY <2>1 DEF SessionInv, SessionConsistent
<1> QED BY <1>1, SessionInvariant, PTL

-----------------------------------------------------------------------------
(* What the integration of a watched terminal has told: once it has spoken    *)
(* the agent is known, a coding agent has an active session, no session goes  *)
(* on at a prompt, and a running command is recorded as running.              *)

Told(l) ==
  /\ l.agent # "unknown"
  /\ l.agent \in Coding => l.sessionActive = TRUE

Watches(b) ==
  watched[b] = TRUE =>
    /\ mode = TRUE
    /\ shell[b] # "starting" => Told(loc[b])
    /\ shell[b] = "prompt" => loc[b].sessionActive = FALSE
    /\ shell[b] = "running" /\ status[b] = "live" => loc[b].commandRunning = TRUE

WatchInv == SessionInv /\ \A b \in Buffer : Watches(b)

LEMMA WatchInit == Init => WatchInv
  BY SessionInit DEF Init, WatchInv, Watches

LEMMA NewPromptTold ==
  ASSUME NEW l \in Local
  PROVE  Told(OnNewPrompt(l))
  BY DEF OnNewPrompt, Told, Local, Coding

LEMMA NewPromptSilent ==
  ASSUME NEW l \in Local
  PROVE  OnNewPrompt(l).sessionActive = FALSE
  BY DEF OnNewPrompt, Local

LEMMA OnSetCmdTold ==
  ASSUME NEW l \in Local, Told(l), NEW cmd \in Command
  PROVE  Told(OnSetCmd(l, cmd))
<1>1. CASE ~Decodes(cmd)
  BY <1>1 DEF OnSetCmd
<1>2. CASE Decodes(cmd)
  <2> DEFINE active == CommandAgent[cmd] \in Coding
  <2>1. CommandAgent[cmd] \in Coding => active = TRUE
    OBVIOUS
  <2>2. OnSetCmd(l, cmd) = [l EXCEPT !.agent = CommandAgent[cmd], !.command = cmd,
                              !.pending = "none", !.sessionActive = active,
                              !.markerAge = Hold]
    BY <1>2 DEF OnSetCmd
  <2>3. CommandAgent[cmd] # "unknown"
    BY CommandAssumption DEF CommandAssumption, Coding
  <2> HIDE DEF active
  <2> QED BY <2>1, <2>2, <2>3 DEF Told, Local
<1> QED BY <1>1, <1>2

\* The other handlers keep what was told.
LEMMA HandlersKeepTold ==
  ASSUME NEW l \in Local, SessionConsistent(l), Told(l), NEW scr, NEW processLive
  PROVE  /\ Told(OnPreCmd(l))
         /\ Told(OnExit(l))
         /\ Told(NoteOutput(l, scr))
         /\ Told(Surveyed(l, scr, processLive))
         /\ Told(AlertIdle(l))
         /\ Told(Older(l))
<1>0. DetectAgent(l, scr) = l.agent
  BY DEF Told, DetectAgent
<1>1. Told(OnPreCmd(l)) /\ Told(OnExit(l))
  BY DEF OnPreCmd, OnExit, Told, Local
<1>2. Told(NoteOutput(l, scr))
  BY <1>0 DEF NoteOutput, Told, Local
<1>3. Told(Surveyed(l, scr, processLive))
  BY <1>0 DEF Surveyed, Entered, RefreshMarker, Told, Local
<1>4. Told(AlertIdle(l))
  BY DEF AlertIdle, Told, Local, Coding
<1>5. Told(Older(l))
  <2>1. PICK o, m, st :
          Older(l) = [l EXCEPT !.outputAge = o, !.markerAge = m, !.stateAge = st]
    BY DEF Older
  <2> QED BY <2>1 DEF Told, Local
<1> QED BY <1>1, <1>2, <1>3, <1>4, <1>5

\* Only a prompt, the exit and a fresh start end a running command.
LEMMA CommandKeepsRunning ==
  ASSUME NEW l \in Local, NEW scr, NEW processLive
  PROVE  /\ NoteOutput(l, scr).commandRunning = l.commandRunning
         /\ Surveyed(l, scr, processLive).commandRunning = l.commandRunning
         /\ AlertIdle(l).commandRunning = l.commandRunning
         /\ Older(l).commandRunning = l.commandRunning
         /\ OnPreCmd(l).commandRunning = TRUE
<1>2. NoteOutput(l, scr).commandRunning = l.commandRunning
  BY DEF NoteOutput, Local
<1>3. Surveyed(l, scr, processLive).commandRunning = l.commandRunning
  BY DEF Surveyed, Entered, RefreshMarker, Local
<1>4. AlertIdle(l).commandRunning = l.commandRunning
  BY DEF AlertIdle, Local
<1>5. Older(l).commandRunning = l.commandRunning
  <2>1. PICK o, m, st :
          Older(l) = [l EXCEPT !.outputAge = o, !.markerAge = m, !.stateAge = st]
    BY DEF Older
  <2> QED BY <2>1 DEF Local
<1>6. OnPreCmd(l).commandRunning = TRUE
  BY DEF OnPreCmd, Local
<1> QED BY <1>2, <1>3, <1>4, <1>5, <1>6

\* Nor does any handler but those of a prompt and of a command touch the
\* session: the text on the screen names no agent that was known.
LEMMA HandlersKeepSession ==
  ASSUME NEW l \in Local, Told(l), NEW scr, NEW processLive
  PROVE  \A h \in {OnPreCmd(l), OnExit(l), NoteOutput(l, scr),
                   Surveyed(l, scr, processLive), Older(l)} :
           h.sessionActive = l.sessionActive /\ h.agent = l.agent /\ h.pending = l.pending
<1>0. DetectAgent(l, scr) = l.agent
  BY DEF Told, DetectAgent
<1> DEFINE Same(h) ==
      h.sessionActive = l.sessionActive /\ h.agent = l.agent /\ h.pending = l.pending
<1>1. Same(OnPreCmd(l)) /\ Same(OnExit(l))
  BY DEF OnPreCmd, OnExit, Local
<1>2. Same(NoteOutput(l, scr))
  BY <1>0 DEF NoteOutput, Local
<1>3. Same(Surveyed(l, scr, processLive))
  BY <1>0 DEF Surveyed, Entered, RefreshMarker, Local
<1>4. Same(Older(l))
  <2>1. PICK o, m, st :
          Older(l) = [l EXCEPT !.outputAge = o, !.markerAge = m, !.stateAge = st]
    BY DEF Older
  <2> QED BY <2>1 DEF Local
<1> QED BY <1>1, <1>2, <1>3, <1>4

\* A terminal whose own variables do not change is watched as before.
LEMMA OthersWatched ==
  ASSUME WatchInv, NEW c \in Buffer, mode' = mode,
         watched'[c] = watched[c], shell'[c] = shell[c],
         status'[c] = status[c], loc'[c] = loc[c]
  PROVE  Watches(c)'
  BY DEF WatchInv, Watches

\* Output of one terminal: what the handler told survives the output hook.
LEMMA OutputWatched ==
  ASSUME WatchInv, NEW b \in Buffer, NEW scr \in Screens, NEW handled \in Local,
         Output(b, scr, handled), SessionConsistent(handled),
         shell' \in [Buffer -> {"starting", "prompt", "announced", "running"}],
         \A c \in Buffer : c # b => shell'[c] = shell[c],
         watched[b] = TRUE =>
           /\ shell'[b] # "starting" => Told(handled)
           /\ shell'[b] = "prompt" => handled.sessionActive = FALSE
           /\ shell'[b] = "running" /\ status[b] = "live" => handled.commandRunning = TRUE
  PROVE  \A c \in Buffer : Watches(c)'
<1> SUFFICES ASSUME NEW c \in Buffer PROVE Watches(c)'
  OBVIOUS
<1>1. UNCHANGED <<status, watched, mode>>
  BY DEF Output, supervision
<1>2. CASE c # b
  <2>1. loc'[c] = loc[c]
    BY <1>2 DEF Output, WatchInv, SessionInv, TypeInv, TypeOK
  <2> QED BY <1>1, <1>2, <2>1, OthersWatched
<1>3. CASE c = b /\ watched[b] = TRUE
  <2>1. mode = TRUE
    BY <1>3 DEF WatchInv, Watches
  <2>2. loc'[b] = NoteOutput(handled, scr)
    BY <2>1 DEF Output, WatchInv, SessionInv, TypeInv, TypeOK
  <2>3. shell'[b] # "starting" => Told(loc'[b])
    BY <1>3, <2>2, HandlersKeepTold
  <2>4. shell'[b] = "running" /\ status[b] = "live" => loc'[b].commandRunning = TRUE
    BY <1>3, <2>2, CommandKeepsRunning
  <2>5. shell'[b] = "prompt" => loc'[b].sessionActive = FALSE
    BY <1>3, <2>2, HandlersKeepSession
  <2> QED BY <1>1, <1>3, <2>1, <2>3, <2>4, <2>5 DEF Watches
<1>4. CASE c = b /\ watched[b] # TRUE
  BY <1>1, <1>4 DEF Watches
<1> QED BY <1>2, <1>3, <1>4

LEMMA ScanWatched ==
  ASSUME WatchInv, NEW b \in Buffer,
         UNCHANGED <<status, shell, watched, mode>>,
         \/ loc'[b] = AlertIdle(Survey(b))
         \/ loc'[b] = Survey(b)
         \/ loc'[b] = loc[b]
         \/ loc'[b] = Older(loc[b])
  PROVE  Watches(b)'
<1>0. loc[b] \in Local /\ SessionConsistent(loc[b])
  BY DEF WatchInv, SessionInv, TypeInv, TypeOK
<1>1. Survey(b) \in Local /\ SessionConsistent(Survey(b))
  BY <1>0, SurveyedType, SurveyedConsistent DEF Survey
<1>2. Told(loc[b]) => Told(loc'[b])
  <2>1. Told(loc[b]) => Told(Survey(b)) /\ Told(Older(loc[b]))
    BY <1>0, HandlersKeepTold DEF Survey
  <2>2. Told(Survey(b)) => Told(AlertIdle(Survey(b)))
    BY <1>1, HandlersKeepTold
  <2> QED BY <2>1, <2>2
<1>3. loc'[b].commandRunning = loc[b].commandRunning
  <2>1. Survey(b).commandRunning = loc[b].commandRunning
    BY <1>0 DEF Survey, Surveyed, Entered, RefreshMarker, Local
  <2>2. AlertIdle(Survey(b)).commandRunning = Survey(b).commandRunning
    BY <1>1, CommandKeepsRunning
  <2>3. Older(loc[b]).commandRunning = loc[b].commandRunning
    BY <1>0, CommandKeepsRunning
  <2> QED BY <2>1, <2>2, <2>3
<1>4. Told(loc[b]) /\ loc[b].sessionActive = FALSE => loc'[b].sessionActive = FALSE
  <2>1. Told(loc[b]) => Survey(b).sessionActive = loc[b].sessionActive
                        /\ Older(loc[b]).sessionActive = loc[b].sessionActive
    BY <1>0, HandlersKeepSession DEF Survey
  <2>2. AlertIdle(Survey(b)).sessionActive = Survey(b).sessionActive
    BY <1>1 DEF AlertIdle, Local
  <2> QED BY <2>1, <2>2
<1> QED BY <1>2, <1>3, <1>4 DEF WatchInv, Watches

\* Discarding a buffer, or starting one, only concerns that buffer.
LEMMA DiscardWatched ==
  ASSUME WatchInv, NEW b \in Buffer, Discard(b), mode' = mode
  PROVE  \A c \in Buffer : Watches(c)'
<1> SUFFICES ASSUME NEW c \in Buffer PROVE Watches(c)'
  OBVIOUS
<1>1. CASE c = b
  BY <1>1 DEF Discard, Watches, WatchInv, SessionInv, TypeInv, TypeOK
<1>2. CASE c # b
  <2>1. watched'[c] = watched[c] /\ shell'[c] = shell[c]
        /\ status'[c] = status[c] /\ loc'[c] = loc[c]
    BY <1>2 DEF Discard, WatchInv, SessionInv, TypeInv, TypeOK
  <2> QED BY <2>1, OthersWatched
<1> QED BY <1>1, <1>2

LEMMA TerminalWatched ==
  ASSUME WatchInv, NEW b \in Buffer, TerminalStep(b)
  PROVE  \A c \in Buffer : Watches(c)'
<1>0. loc[b] \in Local /\ SessionConsistent(loc[b])
  BY DEF WatchInv, SessionInv, TypeInv, TypeOK
<1>t. status \in [Buffer -> {"absent", "live", "dead", "left", "stuck"}]
      /\ shell \in [Buffer -> {"starting", "prompt", "announced", "running"}]
      /\ watched \in [Buffer -> BOOLEAN] /\ loc \in [Buffer -> Local]
  BY DEF WatchInv, SessionInv, TypeInv, TypeOK
<1>1. CASE StartTerminal(b)
  <2> SUFFICES ASSUME NEW c \in Buffer PROVE Watches(c)'
    OBVIOUS
  <2>1. mode' = mode
    BY <1>1 DEF StartTerminal, supervision
  <2>2. CASE c = b
    <3>1. shell'[c] = "starting" /\ watched'[c] = mode
      BY <1>1, <1>t, <2>2 DEF StartTerminal
    <3> QED BY <2>1, <3>1 DEF Watches
  <2>3. CASE c # b
    <3>1. watched'[c] = watched[c] /\ shell'[c] = shell[c]
          /\ status'[c] = status[c] /\ loc'[c] = loc[c]
      BY <1>1, <1>t, <2>3 DEF StartTerminal
    <3> QED BY <2>1, <3>1, OthersWatched
  <2> QED BY <2>2, <2>3
<1>2. ASSUME NEW scr \in Screens, PlainOutput(b, scr)
      PROVE  \A c \in Buffer : Watches(c)'
  <2>1. watched[b] = TRUE =>
          /\ shell'[b] # "starting" => Told(loc[b])
          /\ shell'[b] = "prompt" => loc[b].sessionActive = FALSE
          /\ shell'[b] = "running" /\ status[b] = "live" => loc[b].commandRunning = TRUE
    BY <1>2 DEF PlainOutput, WatchInv, Watches
  <2> QED BY <1>0, <1>t, <1>2, <2>1, OutputWatched DEF PlainOutput
<1>3. ASSUME NEW scr \in Screens, NewPrompt(b, scr)
      PROVE  \A c \in Buffer : Watches(c)'
  <2>1. shell' = [shell EXCEPT ![b] = "prompt"] /\ Output(b, scr, OnNewPrompt(loc[b]))
    BY <1>3 DEF NewPrompt
  <2>2. Told(OnNewPrompt(loc[b])) /\ OnNewPrompt(loc[b]) \in Local
        /\ SessionConsistent(OnNewPrompt(loc[b]))
        /\ OnNewPrompt(loc[b]).sessionActive = FALSE
    BY <1>0, NewPromptSilent, NewPromptTold, OnNewPromptType, HandlersConsistent
  <2> QED BY <1>t, <2>1, <2>2, OutputWatched
<1>4. ASSUME NEW scr \in Screens, NEW cmd \in Command, SetCmd(b, scr, cmd)
      PROVE  \A c \in Buffer : Watches(c)'
  <2>1. shell' = [shell EXCEPT ![b] = "announced"] /\ shell[b] = "prompt"
        /\ Output(b, scr, OnSetCmd(loc[b], cmd))
    BY <1>4 DEF SetCmd
  <2>2. watched[b] = TRUE => Told(OnSetCmd(loc[b], cmd))
    BY <1>0, <2>1, OnSetCmdTold DEF WatchInv, Watches
  <2>3. OnSetCmd(loc[b], cmd) \in Local /\ SessionConsistent(OnSetCmd(loc[b], cmd))
    BY <1>0, OnSetCmdType, OnSetCmdConsistent
  <2> QED BY <1>t, <2>1, <2>2, <2>3, OutputWatched
<1>5. ASSUME NEW scr \in Screens, PreCmd(b, scr)
      PROVE  \A c \in Buffer : Watches(c)'
  <2>1. shell' = [shell EXCEPT ![b] = "running"] /\ shell[b] = "announced"
        /\ Output(b, scr, OnPreCmd(loc[b]))
    BY <1>5 DEF PreCmd
  <2>2. watched[b] = TRUE => Told(OnPreCmd(loc[b]))
    BY <1>0, <2>1, HandlersKeepTold DEF WatchInv, Watches
  <2>3. OnPreCmd(loc[b]) \in Local /\ SessionConsistent(OnPreCmd(loc[b]))
        /\ OnPreCmd(loc[b]).commandRunning = TRUE
    BY <1>0, OnPreCmdType, HandlersConsistent, CommandKeepsRunning
  <2> QED BY <1>t, <2>1, <2>2, <2>3, OutputWatched
<1>6. ASSUME NEW scr \in Screens, Resize(b, scr)
      PROVE  \A c \in Buffer : Watches(c)'
  BY <1>6, OthersWatched DEF Resize, supervision
<1>7. CASE ProcessDies(b)
  <2> SUFFICES ASSUME NEW c \in Buffer PROVE Watches(c)'
    OBVIOUS
  <2>1. status'[c] = status[c] \/ status'[c] = "dead"
    BY <1>7, <1>t DEF ProcessDies
  <2>2. UNCHANGED <<shell, loc, watched, mode>>
    BY <1>7 DEF ProcessDies, supervision
  <2> QED BY <2>1, <2>2 DEF WatchInv, Watches
<1>8. CASE Sentinel(b)
  <2>1. mode' = mode
    BY <1>8 DEF Sentinel, supervision
  <2>2. CASE Discard(b)
    BY <2>1, <2>2, DiscardWatched
  <2>3. CASE /\ status' = [status EXCEPT ![b] = "left"]
             /\ loc' = [loc EXCEPT ![b] = OnExit(NoteOutput(loc[b], screen[b]))]
             /\ UNCHANGED <<shell, watched>>
    <3> SUFFICES ASSUME NEW c \in Buffer PROVE Watches(c)'
      OBVIOUS
    <3>1. CASE c = b
      <4> DEFINE last == NoteOutput(loc[c], screen[c])
      <4>1. status'[c] = "left" /\ loc'[c] = OnExit(last)
        BY <1>t, <2>3, <3>1
      <4>2. last \in Local /\ SessionConsistent(last)
            /\ (Told(loc[c]) => Told(last) /\ last.sessionActive = loc[c].sessionActive)
        BY <1>0, <3>1, NoteOutputType, NoteOutputConsistent, HandlersKeepTold,
           HandlersKeepSession
      <4> HIDE DEF last
      <4>3. Told(loc[c]) => Told(loc'[c]) /\ loc'[c].sessionActive = loc[c].sessionActive
        BY <4>1, <4>2, HandlersKeepTold, HandlersKeepSession
      <4> QED BY <2>1, <2>3, <3>1, <4>1, <4>3 DEF WatchInv, Watches
    <3>2. CASE c # b
      <4>1. status'[c] = status[c] /\ loc'[c] = loc[c]
        BY <1>t, <2>3, <3>2
      <4> QED BY <2>1, <2>3, <4>1, OthersWatched
    <3> QED BY <3>1, <3>2
  <2> QED BY <1>8, <2>2, <2>3 DEF Sentinel
<1>9. CASE KillBuffer(b)
  BY <1>9, DiscardWatched DEF KillBuffer, supervision
<1>10. CASE WindowChange(b)
  BY <1>2, <1>10, WindowChangeIsOutput DEF WatchInv, SessionInv
<1>11. ASSUME NEW scr \in Screens, DrainFails(b, scr)
       PROVE  \A c \in Buffer : Watches(c)'
  <2> SUFFICES ASSUME NEW c \in Buffer PROVE Watches(c)'
    OBVIOUS
  <2>1. status'[c] = status[c] \/ status'[c] \in {"dead", "stuck"}
    BY <1>11, <1>t DEF DrainFails
  <2>2. UNCHANGED <<shell, loc, watched, mode>>
    BY <1>11 DEF DrainFails, supervision
  <2> QED BY <2>1, <2>2 DEF WatchInv, Watches
<1> QED BY <1>1, <1>2, <1>3, <1>4, <1>5, <1>6, <1>7, <1>8, <1>9, <1>10, <1>11
        DEF TerminalStep

LEMMA WatchStep == WatchInv /\ [Next]_vars => WatchInv'
<1> SUFFICES ASSUME WatchInv, [Next]_vars
             PROVE  \A c \in Buffer : Watches(c)'
  BY SessionStep DEF WatchInv
<1>1. ASSUME NEW b \in Buffer, TerminalStep(b) PROVE \A c \in Buffer : Watches(c)'
  BY <1>1, TerminalWatched
<1>2. CASE Scan
  <2> SUFFICES ASSUME NEW c \in Buffer PROVE Watches(c)'
    OBVIOUS
  <2>1. loc'[c] = AlertIdle(Survey(c)) \/ loc'[c] = Survey(c) \/ loc'[c] = loc[c]
    BY <1>2 DEF Scan
  <2>2. UNCHANGED <<status, shell, watched, mode>>
    BY <1>2 DEF Scan
  <2> QED BY <2>1, <2>2, ScanWatched
<1>3. CASE EnableBody
  BY <1>3 DEF EnableBody, Watches
<1>4. CASE Disable
  BY <1>4 DEF Disable, Watches
<1>5. CASE Tick
  <2> SUFFICES ASSUME NEW c \in Buffer PROVE Watches(c)'
    OBVIOUS
  <2>1. loc'[c] = Older(loc[c]) /\ UNCHANGED <<status, shell, watched, mode>>
    BY <1>5 DEF Tick, supervision
  <2> QED BY <2>1, ScanWatched
<1>6. CASE LoseNotifier \/ UNCHANGED vars
  <2> SUFFICES ASSUME NEW c \in Buffer PROVE Watches(c)'
    OBVIOUS
  <2>1. UNCHANGED <<status, shell, loc, watched, mode>>
    BY <1>6 DEF LoseNotifier, vars
  <2>2. /\ mode' = mode /\ watched'[c] = watched[c] /\ shell'[c] = shell[c]
        /\ status'[c] = status[c] /\ loc'[c] = loc[c]
    BY <2>1
  <2> QED BY <2>2, OthersWatched
<1> QED BY <1>1, <1>2, <1>3, <1>4, <1>5, <1>6 DEF Next, Enable, Reload

\* A scan that announces an end found the terminal alive and idle, outside any
\* session and any command, so that only the last prompt can have left the agent
\* that is named.
LEMMA DoneFromPending ==
  ASSUME WatchInv, Scan, NEW b \in Buffer, NEW agent \in Coding,
         <<b, "done", agent>> \in alerts', watched[b] = TRUE, shell[b] # "starting"
  PROVE  shell[b] # "running" /\ loc[b].pending = agent /\ loc'[b].pending = "none"
<1> DEFINE new == Survey(b)
<1>0. loc[b] \in Local /\ Told(loc[b]) /\ new \in Local /\ SessionConsistent(loc[b])
  BY SurveyType DEF WatchInv, Watches, SessionInv, TypeInv, TypeOK
<1>1. PICK i \in DOMAIN bufferList :
        /\ \A j \in Failing : i < j
        /\ <<b, "done", agent>> \in DueAlerts(bufferList[i])
  BY DEF Scan
<1>2. bufferList[i] = b
  BY <1>1 DEF DueAlerts, Notify
<1>3. IdleAlertDue(new) /\ agent = ReportedAgent(new)
  BY <1>1, <1>2 DEF DueAlerts, Notify
<1>4. loc'[b] = AlertIdle(new)
  BY <1>1, <1>2 DEF Scan
<1>5. /\ new.agent = loc[b].agent
      /\ new.sessionActive = loc[b].sessionActive
      /\ new.pending = loc[b].pending
      /\ new.commandRunning = loc[b].commandRunning
  BY <1>0 DEF Survey, Surveyed, Entered, RefreshMarker, DetectAgent, Told, Local
<1>6. new.state = DetectState(RefreshMarker([loc[b] EXCEPT !.agent = DetectAgent(loc[b], screen[b])],
                                            screen[b]), screen[b], status[b] = "live")
  <2> DEFINE named == [loc[b] EXCEPT !.agent = DetectAgent(loc[b], screen[b])]
             m == RefreshMarker(named, screen[b])
             st == DetectState(m, screen[b], status[b] = "live")
  <2>1. new = Entered(m, st)
    BY DEF Survey, Surveyed
  <2>2. m \in Local
    <3>1. named \in Local
      BY <1>0, DetectAgentType DEF Local
    <3> QED BY <3>1, RefreshMarkerType
  <2>3. Entered(m, st).state = st
    <3> HIDE DEF m, st
    <3> QED BY <2>2 DEF Entered, Local
  <2> QED BY <2>1, <2>3
<1>7. status[b] = "live" /\ ~loc[b].commandRunning
  <2>1. new.state = "idle"
    BY <1>3 DEF IdleAlertDue
  <2>2. RefreshMarker([loc[b] EXCEPT !.agent = DetectAgent(loc[b], screen[b])],
                      screen[b]).commandRunning = loc[b].commandRunning
    BY <1>0 DEF RefreshMarker, Local
  <2> QED BY <1>6, <2>1, <2>2 DEF DetectState
<1>8. new.pending # "none"
  <2>1. ~loc[b].sessionActive
    BY <1>3, <1>5 DEF IdleAlertDue, SessionOver
  <2>2. loc[b].agent \notin Coding
    BY <1>0, <2>1 DEF Told
  <2> QED BY <1>3, <1>5, <2>2 DEF ReportedAgent
<1>9. loc[b].pending = agent
  BY <1>3, <1>5, <1>8 DEF ReportedAgent
<1>10. loc'[b].pending = "none"
  <2> HIDE DEF new
  <2> QED BY <1>0, <1>3, <1>4 DEF AlertIdle, Local
<1>11. shell[b] # "running"
  BY <1>7 DEF WatchInv, Watches
<1> QED BY <1>9, <1>10, <1>11

\* No step of a terminal but the sentinel's announces anything.
LEMMA SilentStep ==
  ASSUME NEW c \in Buffer, TerminalStep(c), ~Sentinel(c)
  PROVE  alerts' = {}
<1>1. CASE StartTerminal(c)
  BY <1>1 DEF StartTerminal
<1>2. ASSUME NEW scr \in Screens, PlainOutput(c, scr) PROVE alerts' = {}
  BY <1>2 DEF PlainOutput, Output
<1>3. ASSUME NEW scr \in Screens, NewPrompt(c, scr) PROVE alerts' = {}
  BY <1>3 DEF NewPrompt, Output
<1>4. ASSUME NEW scr \in Screens, NEW cmd \in Command, SetCmd(c, scr, cmd)
      PROVE  alerts' = {}
  BY <1>4 DEF SetCmd, Output
<1>5. ASSUME NEW scr \in Screens, PreCmd(c, scr) PROVE alerts' = {}
  BY <1>5 DEF PreCmd, Output
<1>6. ASSUME NEW scr \in Screens, Resize(c, scr) PROVE alerts' = {}
  BY <1>6 DEF Resize
<1>7. CASE ProcessDies(c)
  BY <1>7 DEF ProcessDies
<1>8. CASE KillBuffer(c)
  BY <1>8 DEF KillBuffer
<1>9. CASE WindowChange(c)
  BY <1>9 DEF WindowChange, Output
<1>10. ASSUME NEW scr \in Screens, DrainFails(c, scr) PROVE alerts' = {}
  BY <1>10 DEF DrainFails
<1> QED BY <1>1, <1>2, <1>3, <1>4, <1>5, <1>6, <1>7, <1>8, <1>9, <1>10 DEF TerminalStep

\* A "done" is of the agent the last prompt left pending, consumes it, and is
\* not announced while a command runs.
DoneReportsEndedSession ==
  [][\A b \in Buffer, agent \in Coding :
       <<b, "done", agent>> \in alerts' /\ watched[b] /\ shell[b] # "starting" =>
         /\ shell[b] # "running"
         /\ loc[b].pending = agent
         /\ loc'[b].pending = "none"]_vars

\* A watched terminal whose integration has spoken reports the end of a session
\* once, and never while a command runs.
THEOREM DoneAlwaysReportsEndedSession == Spec => DoneReportsEndedSession
<1> DEFINE ReportsTrue ==
      \A b \in Buffer, agent \in Coding :
        <<b, "done", agent>> \in alerts' /\ watched[b] /\ shell[b] # "starting" =>
          /\ shell[b] # "running"
          /\ loc[b].pending = agent
          /\ loc'[b].pending = "none"
<1>1. Spec => []WatchInv
  BY WatchInit, WatchStep, PTL DEF Spec
<1>2. WatchInv /\ [Next]_vars => [ReportsTrue]_vars
  <2> SUFFICES ASSUME WatchInv, Next, NEW b \in Buffer, NEW agent \in Coding,
                      <<b, "done", agent>> \in alerts', watched[b], shell[b] # "starting"
               PROVE  shell[b] # "running" /\ loc[b].pending = agent /\ loc'[b].pending = "none"
    BY DEF ReportsTrue
  <2>1. watched[b] = TRUE
    BY DEF WatchInv, SessionInv, TypeInv, TypeOK
  <2>2. CASE Scan
    BY <2>1, <2>2, DoneFromPending
  <2>3. ASSUME NEW c \in Buffer, TerminalStep(c) PROVE FALSE
    <3>1. CASE Sentinel(c)
      BY <3>1 DEF Sentinel, Notify
    <3>2. CASE ~Sentinel(c)
      BY <2>3, <3>2, SilentStep
    <3> QED BY <3>1, <3>2
  <2>4. CASE EnableBody \/ Disable \/ Tick \/ LoseNotifier
    BY <2>4 DEF EnableBody, Disable, Tick, LoseNotifier
  <2> QED BY <2>2, <2>3, <2>4 DEF Next, Enable, Reload
<1> QED BY <1>1, <1>2, PTL DEF Spec, DoneReportsEndedSession

-----------------------------------------------------------------------------
(* What is promised of the sessions.  Each step is seen from one terminal:    *)
(* what it does to that terminal's shell, session and reports.                *)

LEMMA SureBoolean == ASSUME WatchInv, NEW b \in Buffer PROVE watched[b] \in BOOLEAN
  BY DEF WatchInv, SessionInv, TypeInv, TypeOK

\* A terminal of which a step changes nothing and reports nothing.
LEMMA QuietStep ==
  ASSUME NEW b \in Buffer, Reported(b)' = {}, Sure(b)' = Sure(b),
         (shell'[b] = "running") = (shell[b] = "running"),
         Sure(b) => loc'[b].pending = loc[b].pending
                    /\ Session(loc'[b]) = Session(loc[b])
  PROVE  Reports(b)!ReportsStep
<1>1. CASE Sure(b)
  BY <1>1 DEF Reports!ReportsStep, Reports!ReportsNext, Reports!Known, Reports!Quiet
<1>2. CASE ~Sure(b)
  BY <1>2 DEF Reports!ReportsStep, Reports!ReportsNext, Reports!Unsure
<1> QED BY <1>1, <1>2

\* A terminal that is no longer watched, or starts.
LEMMA LostStep ==
  ASSUME NEW b \in Buffer, Reported(b)' = {}, ~Sure(b)'
  PROVE  Reports(b)!ReportsStep
  BY DEF Reports!ReportsStep, Reports!ReportsNext, Reports!Unsure, Reports!Lost

LEMMA SilentReports ==
  ASSUME alerts' = {}
  PROVE  \A b \in Buffer : Reported(b)' = {}
  BY DEF Reported

\* Output of a watched terminal: what is left of a record after the handler and
\* the output hook.
LEMMA OutputSession ==
  ASSUME WatchInv, NEW b \in Buffer, Sure(b), NEW scr \in Screens,
         NEW handled \in Local, Told(handled), Output(b, scr, handled)
  PROVE  /\ loc'[b].pending = handled.pending
         /\ Session(loc'[b]) = Session(handled)
<1>1. mode = TRUE
  BY DEF WatchInv, Watches, Sure, SessionInv, TypeInv, TypeOK
<1>2. loc'[b] = NoteOutput(handled, scr)
  BY <1>1 DEF Output, WatchInv, SessionInv, TypeInv, TypeOK
<1> QED BY <1>2, HandlersKeepSession DEF Session

LEMMA PromptReports ==
  ASSUME WatchInv, NEW b \in Buffer, NEW scr \in Screens, NewPrompt(b, scr)
  PROVE  Reports(b)!ReportsStep
<1> DEFINE handled == OnNewPrompt(loc[b])
<1>1. /\ Output(b, scr, handled) /\ Reported(b)' = {} /\ watched'[b] = watched[b]
      /\ shell'[b] = "prompt" /\ loc[b] \in Local /\ SessionConsistent(loc[b])
  BY SilentReports DEF NewPrompt, Output, WatchInv, SessionInv, TypeInv, TypeOK
<1>2. handled \in Local /\ Told(handled) /\ Session(handled) = "none"
  BY <1>1, OnNewPromptType, NewPromptTold, NewPromptSilent DEF Session
<1>3. CASE ~watched[b]
  <2>1. ~Sure(b)'
    BY <1>1, <1>3 DEF Sure
  <2> QED BY <1>1, <2>1, LostStep
<1>4. CASE watched[b] /\ shell[b] # "starting"
  <2>1. Sure(b) /\ Sure(b)' /\ Told(loc[b])
    BY <1>1, <1>4, SureBoolean DEF Sure, WatchInv, Watches
  <2>2. loc'[b].pending = handled.pending /\ Session(loc'[b]) = "none"
    BY <1>1, <1>2, <2>1, OutputSession
  <2>3. handled.pending = IF Session(loc[b]) # "none" THEN Session(loc[b]) ELSE loc[b].pending
    BY <1>1, <2>1 DEF OnNewPrompt, Session, Told, SessionConsistent, Local, Coding
  <2> HIDE DEF handled
  <2> QED BY <1>1, <2>1, <2>2, <2>3
          DEF Reports!ReportsStep, Reports!ReportsNext, Reports!Known, Reports!Prompt
<1>5. CASE watched[b] /\ shell[b] = "starting"
  <2>1. ~Sure(b) /\ Sure(b)'
    BY <1>1, <1>5 DEF Sure
  <2>2. mode = TRUE
    BY <1>5, SureBoolean DEF WatchInv, Watches
  <2>3. loc'[b] = NoteOutput(handled, scr)
    BY <1>1, <2>2 DEF Output, WatchInv, SessionInv, TypeInv, TypeOK
  <2>4. Session(loc'[b]) = "none"
    BY <1>2, <2>3, HandlersKeepSession DEF Session
  <2> QED BY <1>1, <2>1, <2>4 DEF Reports!ReportsStep, Reports!ReportsNext, Reports!Settled
<1> QED BY <1>3, <1>4, <1>5

LEMMA CommandReports ==
  ASSUME WatchInv, NEW b \in Buffer, NEW scr \in Screens, NEW cmd \in Command,
         SetCmd(b, scr, cmd)
  PROVE  Reports(b)!ReportsStep
<1> DEFINE handled == OnSetCmd(loc[b], cmd)
<1>1. /\ Output(b, scr, handled) /\ Reported(b)' = {} /\ watched'[b] = watched[b]
      /\ shell[b] = "prompt" /\ shell'[b] = "announced" /\ loc[b] \in Local
  BY SilentReports DEF SetCmd, Output, WatchInv, SessionInv, TypeInv, TypeOK
<1>2. CASE ~watched[b]
  <2>1. ~Sure(b)'
    BY <1>1, <1>2 DEF Sure
  <2> QED BY <1>1, <2>1, LostStep
<1>3. CASE watched[b]
  <2>1. Sure(b) /\ Sure(b)' /\ Told(loc[b]) /\ loc[b].sessionActive = FALSE
    BY <1>1, <1>3, SureBoolean DEF Sure, WatchInv, Watches
  <2>2. handled \in Local /\ Told(handled)
    BY <1>1, <2>1, OnSetCmdType, OnSetCmdTold
  <2>3. loc'[b].pending = handled.pending /\ Session(loc'[b]) = Session(handled)
    BY <1>1, <2>1, <2>2, OutputSession
  <2>4. Session(loc[b]) = "none"
    BY <2>1 DEF Session
  <2>5. CASE ~Decodes(cmd)
    <3>1. handled = loc[b]
      BY <2>5 DEF OnSetCmd
    <3> QED BY <1>1, <2>1, <2>3, <3>1, QuietStep
  <2>6. CASE Decodes(cmd)
    <3>1. handled.pending = "none"
      BY <1>1, <2>6 DEF OnSetCmd, Local
    <3>2. Session(handled) \in Coding \cup {"none"}
      <4>1. SessionConsistent(handled)
        BY <1>1, OnSetCmdConsistent DEF WatchInv, SessionInv
      <4> HIDE DEF handled
      <4> QED BY <2>2, <4>1 DEF Session, SessionConsistent, Local
    <3> HIDE DEF handled
    <3> QED BY <1>1, <2>1, <2>3, <2>4, <3>1, <3>2
            DEF Reports!ReportsStep, Reports!ReportsNext, Reports!Known, Reports!Announced
  <2> QED BY <2>5, <2>6
<1> QED BY <1>2, <1>3, SureBoolean

LEMMA PreCmdReports ==
  ASSUME WatchInv, NEW b \in Buffer, NEW scr \in Screens, PreCmd(b, scr)
  PROVE  Reports(b)!ReportsStep
<1> DEFINE handled == OnPreCmd(loc[b])
<1>1. /\ Output(b, scr, handled) /\ Reported(b)' = {} /\ watched'[b] = watched[b]
      /\ shell[b] = "announced" /\ shell'[b] = "running"
      /\ loc[b] \in Local /\ SessionConsistent(loc[b])
  BY SilentReports DEF PreCmd, Output, WatchInv, SessionInv, TypeInv, TypeOK
<1>2. CASE ~watched[b]
  <2>1. ~Sure(b)'
    BY <1>1, <1>2 DEF Sure
  <2> QED BY <1>1, <2>1, LostStep
<1>3. CASE watched[b]
  <2>1. Sure(b) /\ Sure(b)' /\ Told(loc[b])
    BY <1>1, <1>3, SureBoolean DEF Sure, WatchInv, Watches
  <2>2. handled \in Local /\ Told(handled)
    BY <1>1, <2>1, OnPreCmdType, HandlersKeepTold
  <2>3. loc'[b].pending = handled.pending /\ Session(loc'[b]) = Session(handled)
    BY <1>1, <2>1, <2>2, OutputSession
  <2>4. handled.pending = loc[b].pending /\ Session(handled) = Session(loc[b])
    BY <1>1, <2>1, HandlersKeepSession DEF Session
  <2> QED BY <1>1, <2>1, <2>3, <2>4
          DEF Reports!ReportsStep, Reports!ReportsNext, Reports!Known, Reports!CommandRuns
<1> QED BY <1>2, <1>3, SureBoolean

LEMMA PlainReports ==
  ASSUME WatchInv, NEW b \in Buffer, NEW scr \in Screens, PlainOutput(b, scr)
  PROVE  Reports(b)!ReportsStep
<1>1. /\ Output(b, scr, loc[b]) /\ Reported(b)' = {} /\ watched'[b] = watched[b]
      /\ shell'[b] = shell[b] /\ loc[b] \in Local
  BY SilentReports DEF PlainOutput, Output, WatchInv, SessionInv, TypeInv, TypeOK
<1>2. Sure(b)' = Sure(b)
  BY <1>1 DEF Sure
<1>3. Sure(b) => loc'[b].pending = loc[b].pending /\ Session(loc'[b]) = Session(loc[b])
  <2>1. Sure(b) => Told(loc[b])
    BY SureBoolean DEF Sure, WatchInv, Watches
  <2> QED BY <1>1, <2>1, OutputSession
<1> QED BY <1>1, <1>2, <1>3, QuietStep

\* Starting and discarding end what was known; the other steps of a terminal
\* leave its session alone.
LEMMA TerminalReports ==
  ASSUME WatchInv, NEW b \in Buffer, TerminalStep(b)
  PROVE  Reports(b)!ReportsStep
<1>t. /\ shell \in [Buffer -> {"starting", "prompt", "announced", "running"}]
      /\ watched \in [Buffer -> BOOLEAN] /\ loc \in [Buffer -> Local]
      /\ SessionConsistent(loc[b])
  BY DEF WatchInv, SessionInv, TypeInv, TypeOK
<1>s. Sure(b) => Told(loc[b])
  BY <1>t DEF Sure, WatchInv, Watches
<1>1. CASE StartTerminal(b) \/ KillBuffer(b)
  <2>1. Reported(b)' = {} /\ ~Sure(b)'
    BY <1>1, <1>t, SilentReports DEF StartTerminal, KillBuffer, Discard, Sure
  <2> QED BY <2>1, LostStep
<1>2. CASE \E scr \in Screens : \/ PlainOutput(b, scr) \/ NewPrompt(b, scr) \/ PreCmd(b, scr)
                                \/ \E cmd \in Command : SetCmd(b, scr, cmd)
  BY <1>2, PlainReports, PromptReports, PreCmdReports, CommandReports
<1>3. CASE ProcessDies(b) \/ \E scr \in Screens : Resize(b, scr) \/ DrainFails(b, scr)
  <2>1. Reported(b)' = {} /\ UNCHANGED <<shell, loc, watched>>
    BY <1>3, SilentReports DEF ProcessDies, Resize, DrainFails
  <2> QED BY <2>1, QuietStep DEF Sure
<1>4. CASE WindowChange(b)
  BY <1>4, PlainReports, WindowChangeIsOutput DEF WatchInv, SessionInv
<1>5. CASE Sentinel(b)
  <2> DEFINE last == NoteOutput(loc[b], screen[b])
  <2>1. Reported(b)' = {}
    BY <1>5, SilentReports DEF Sentinel, Notify, Reported
  <2>2. CASE Discard(b)
    <3>1. ~Sure(b)'
      BY <1>t, <2>2 DEF Discard, Sure
    <3> QED BY <2>1, <3>1, LostStep
  <2>3. CASE UNCHANGED <<shell, watched>> /\ loc' = [loc EXCEPT ![b] = OnExit(last)]
    <3>1. loc'[b] = OnExit(last) /\ Sure(b)' = Sure(b)
      BY <1>t, <2>3 DEF Sure
    <3>2. last \in Local /\ (Sure(b) => Told(last))
      BY <1>s, <1>t, NoteOutputType, HandlersKeepTold
    <3>3. Sure(b) => Session(last) = Session(loc[b]) /\ last.pending = loc[b].pending
      BY <1>s, <1>t, HandlersKeepSession DEF Session
    <3> HIDE DEF last
    <3>4. Sure(b) => Session(loc'[b]) = Session(last) /\ loc'[b].pending = last.pending
      BY <3>1, <3>2, HandlersKeepSession DEF Session
    <3> QED BY <2>1, <2>3, <3>1, <3>3, <3>4, QuietStep
  <2> QED BY <1>5, <2>2, <2>3 DEF Sentinel
<1> QED BY <1>1, <1>2, <1>3, <1>4, <1>5 DEF TerminalStep

\* A step of one terminal is no step of the others.
LEMMA OthersReports ==
  ASSUME WatchInv, NEW b \in Buffer, TerminalStep(b), NEW c \in Buffer, c # b
  PROVE  Reports(c)!ReportsStep
<1>t. /\ shell \in [Buffer -> {"starting", "prompt", "announced", "running"}]
      /\ watched \in [Buffer -> BOOLEAN] /\ loc \in [Buffer -> Local]
  BY DEF WatchInv, SessionInv, TypeInv, TypeOK
<1>1. Reported(c)' = {}
  <2>1. CASE Sentinel(b)
    BY <2>1, SilentReports DEF Sentinel, Notify, Reported
  <2>2. CASE ~Sentinel(b)
    BY <2>2, SilentStep, SilentReports
  <2> QED BY <2>1, <2>2
<1>2. shell'[c] = shell[c] /\ watched'[c] = watched[c] /\ loc'[c] = loc[c]
  <2>1. CASE StartTerminal(b) \/ KillBuffer(b) \/ Sentinel(b)
    BY <1>t, <2>1 DEF StartTerminal, KillBuffer, Sentinel, Discard
  <2>2. ASSUME NEW scr, NEW handled, Output(b, scr, handled)
        PROVE  watched'[c] = watched[c] /\ loc'[c] = loc[c]
    BY <1>t, <2>2 DEF Output
  <2>3. CASE \E scr \in Screens : \/ PlainOutput(b, scr) \/ NewPrompt(b, scr) \/ PreCmd(b, scr)
                                  \/ \E cmd \in Command : SetCmd(b, scr, cmd)
    BY <1>t, <2>2, <2>3 DEF PlainOutput, NewPrompt, PreCmd, SetCmd
  <2>4. CASE WindowChange(b)
    BY <2>2, <2>4 DEF WindowChange
  <2>5. CASE ProcessDies(b) \/ \E scr \in Screens : Resize(b, scr) \/ DrainFails(b, scr)
    BY <2>5 DEF ProcessDies, Resize, DrainFails
  <2> QED BY <2>1, <2>3, <2>4, <2>5 DEF TerminalStep
<1> QED BY <1>1, <1>2, QuietStep DEF Sure

\* What a scan does to the record of a watched terminal: it consumes the agent
\* that is pending exactly when it announces its end.
LEMMA ScanReports ==
  ASSUME WatchInv, Scan, NEW b \in Buffer
  PROVE  Reports(b)!ReportsStep
<1> DEFINE new == Survey(b)
<1>1. UNCHANGED <<shell, watched>> /\ Sure(b)' = Sure(b)
  BY DEF Scan, Sure
<1>2. CASE ~Sure(b)
  BY <1>1, <1>2 DEF Reports!ReportsStep, Reports!ReportsNext, Reports!Unsure
<1>3. CASE Sure(b)
  <2>0. loc[b] \in Local /\ Told(loc[b]) /\ new \in Local /\ SessionConsistent(loc[b])
    BY <1>3, SurveyType DEF Sure, WatchInv, Watches, SessionInv, TypeInv, TypeOK
  <2>1. /\ new.pending = loc[b].pending /\ new.agent = loc[b].agent
        /\ new.sessionActive = loc[b].sessionActive
    BY <2>0, HandlersKeepSession DEF Survey
  <2> HIDE DEF new
  <2>2. CASE Reported(b)' # {}
    <3>1. PICK agent \in Coding : <<b, "done", agent>> \in alerts'
      BY <2>2 DEF Reported
    <3>2. \A other \in Coding : <<b, "done", other>> \in alerts' =>
            shell[b] # "running" /\ loc[b].pending = other /\ loc'[b].pending = "none"
      BY <1>3, SureBoolean, DoneFromPending DEF Sure
    <3>3. Reported(b)' = {loc[b].pending} /\ loc[b].pending # "none"
      BY <3>1, <3>2 DEF Reported, Coding
    <3>4. Session(loc[b]) = "none" /\ loc'[b].sessionActive = FALSE
      <4>1. loc[b].sessionActive = FALSE
        BY <2>0, <3>3 DEF SessionConsistent
      <4>2. AlertIdle(new).sessionActive = FALSE /\ new.sessionActive = FALSE
        BY <2>0, <2>1, <4>1 DEF AlertIdle, Local
      <4>3. loc'[b] = AlertIdle(new) \/ loc'[b] = new \/ loc'[b] = loc[b]
        BY DEF Scan, new
      <4> QED BY <4>1, <4>2, <4>3 DEF Session
    <3>5. Session(loc'[b]) = "none"
      BY <3>4 DEF Session
    <3> QED BY <1>1, <1>3, <3>1, <3>2, <3>3, <3>4, <3>5
            DEF Reports!ReportsStep, Reports!ReportsNext, Reports!Known, Reports!Report
  <2>3. CASE Reported(b)' = {}
    <3>1. CASE loc'[b] = loc[b] \/ loc'[b] = new
      BY <1>1, <2>1, <2>3, <3>1, QuietStep DEF Session
    <3>2. CASE loc'[b] # loc[b] /\ loc'[b] # new
      <4>1. PICK i \in DOMAIN bufferList :
              /\ bufferList[i] = b /\ \A j \in Failing : i < j
              /\ loc'[b] = AlertIdle(new)
        BY <3>2 DEF Scan, new
      <4>2. DueAlerts(b) \subseteq alerts'
        BY <4>1 DEF Scan
      <4>3. IdleAlertDue(new)
        BY <3>2, <4>1 DEF AlertIdle
      <4>4. new.pending = "none"
        <5> SUFFICES ASSUME new.pending # "none" PROVE FALSE
          OBVIOUS
        <5>1. new.pending \in Coding
          BY <2>0 DEF Local
        <5>2. DueAlerts(b) = {<<b, "done", new.pending>>}
          BY <4>3, <5>1 DEF DueAlerts, new, IdleAlertDue, Notify, ReportedAgent
        <5> QED BY <2>3, <4>2, <5>1, <5>2 DEF Reported
      <4>5. AlertIdle(new) = [new EXCEPT !.idleAlerted = TRUE, !.agent = new.agent,
                                         !.pending = "none"]
        BY <4>3, <4>4 DEF AlertIdle
      <4>6. loc'[b].pending = new.pending /\ Session(loc'[b]) = Session(new)
        BY <2>0, <4>1, <4>4, <4>5 DEF Session, Local
      <4> QED BY <1>1, <2>1, <2>3, <4>6, QuietStep DEF Session
    <3> QED BY <3>1, <3>2
  <2> QED BY <2>2, <2>3
<1> QED BY <1>2, <1>3

LEMMA StepReports ==
  ASSUME WatchInv, Next, NEW b \in Buffer
  PROVE  Reports(b)!ReportsStep
<1>1. ASSUME NEW c \in Buffer, TerminalStep(c) PROVE Reports(b)!ReportsStep
  <2>1. CASE c = b
    BY <1>1, <2>1, TerminalReports
  <2>2. CASE c # b
    BY <1>1, <2>2, OthersReports
  <2> QED BY <2>1, <2>2
<1>2. CASE Scan
  BY <1>2, ScanReports
<1>3. CASE EnableBody \/ Disable
  <2>1. Reported(b)' = {} /\ ~Sure(b)'
    BY <1>3, SilentReports DEF EnableBody, Disable, Sure
  <2> QED BY <2>1, LostStep
<1>4. CASE Tick
  <2>1. Reported(b)' = {} /\ UNCHANGED <<shell, watched>> /\ loc'[b] = Older(loc[b])
    BY <1>4, SilentReports DEF Tick
  <2>2. loc[b] \in Local /\ (Sure(b) => Told(loc[b]))
    BY SureBoolean DEF Sure, WatchInv, Watches, SessionInv, TypeInv, TypeOK
  <2>3. Sure(b) => loc'[b].pending = loc[b].pending /\ Session(loc'[b]) = Session(loc[b])
    BY <2>1, <2>2, HandlersKeepSession DEF Session
  <2>4. Sure(b)' = Sure(b) /\ (shell'[b] = "running") = (shell[b] = "running")
    BY <2>1 DEF Sure
  <2> QED BY <2>1, <2>3, <2>4, QuietStep
<1>5. CASE LoseNotifier
  <2>1. Reported(b)' = {} /\ UNCHANGED <<shell, watched, loc>>
    BY <1>5, SilentReports DEF LoseNotifier
  <2> QED BY <2>1, QuietStep DEF Sure
<1> QED BY <1>1, <1>2, <1>3, <1>4, <1>5 DEF Next, Enable, Reload

\* The supervisor implements the promise about sessions: of every terminal it is
\* sure of it reports each session that ended at most once, by the agent that
\* ran, while nothing runs.
THEOREM SupervisorReportsSessions == Spec => ReportsSessions
<1> DEFINE Begins == \A b \in Buffer : Reports(b)!ReportsInit
           Steps == \A b \in Buffer : Reports(b)!ReportsStep
<1>1. Init => Begins
  BY DEF Init, Reports!ReportsInit, Sure, Reported
<1>2. Spec => []WatchInv
  BY WatchInit, WatchStep, PTL DEF Spec
<1>3. WatchInv /\ [Next]_vars => [Steps]_vars
  BY StepReports DEF Steps
<1> HIDE DEF Begins, Steps
<1>4. Spec => Begins /\ [][Steps]_vars
  BY <1>1, <1>2, <1>3, PTL DEF Spec
<1> QED BY <1>4 DEF Begins, Steps, ReportsSessions
-----------------------------------------------------------------------------
(* The list of terminals. *)

\* A list without one of its buffers.
LEMMA WithoutOnce ==
  ASSUME NEW list \in Seq(Buffer), NEW b,
         \A i, j \in DOMAIN list : list[i] = list[j] => i = j
  PROVE  LET rest == Without(list, b)
         IN /\ {rest[i] : i \in DOMAIN rest} = {list[i] : i \in DOMAIN list} \ {b}
            /\ \A i, j \in DOMAIN rest : rest[i] = rest[j] => i = j
<1> DEFINE rest == Without(list, b)
           n == Len(list)
<1>1. CASE ~\E i \in DOMAIN list : list[i] = b
  BY <1>1 DEF Without
<1>2. CASE \E i \in DOMAIN list : list[i] = b
  <2> DEFINE k == CHOOSE j \in DOMAIN list : list[j] = b
  <2>1. k \in 1 .. n /\ list[k] = b /\ n \in Nat
    BY <1>2
  <2>2. rest = SubSeq(list, 1, k - 1) \o SubSeq(list, k + 1, n)
    BY <1>2 DEF Without
  <2> HIDE DEF k
  <2>3. /\ SubSeq(list, 1, k - 1) \in Seq(Buffer) /\ Len(SubSeq(list, 1, k - 1)) = k - 1
        /\ \A i \in 1 .. k - 1 : SubSeq(list, 1, k - 1)[i] = list[i]
    BY <2>1
  <2>4. /\ SubSeq(list, k + 1, n) \in Seq(Buffer) /\ Len(SubSeq(list, k + 1, n)) = n - k
        /\ \A i \in 1 .. n - k : SubSeq(list, k + 1, n)[i] = list[i + k]
    BY <2>1
  <2>5. /\ Len(rest) = n - 1 /\ DOMAIN rest = 1 .. n - 1
        /\ \A i \in 1 .. n - 1 : rest[i] = IF i < k THEN list[i] ELSE list[i + 1]
    <3> DEFINE before == SubSeq(list, 1, k - 1)
               after == SubSeq(list, k + 1, n)
    <3>1. before \in Seq(Buffer) /\ after \in Seq(Buffer) /\ rest = before \o after
      BY <2>2, <2>3, <2>4
    <3>2. Len(before) = k - 1 /\ \A i \in 1 .. k - 1 : before[i] = list[i]
      BY <2>3
    <3>3. Len(after) = n - k /\ \A i \in 1 .. n - k : after[i] = list[i + k]
      BY <2>4
    <3> HIDE DEF rest, before, after
    <3>4. /\ Len(rest) = n - 1 /\ DOMAIN rest = 1 .. n - 1
          /\ \A i \in 1 .. n - 1 : rest[i] = IF i < k THEN before[i] ELSE after[i - (k - 1)]
      BY <2>1, <3>1, <3>2, <3>3
    <3>5. ASSUME NEW i \in 1 .. n - 1, i >= k PROVE rest[i] = list[i + 1]
      <4>1. i - (k - 1) \in 1 .. n - k /\ (i - (k - 1)) + k = i + 1
        BY <2>1, <3>5
      <4> QED BY <2>1, <3>3, <3>4, <3>5, <4>1
    <3>6. ASSUME NEW i \in 1 .. n - 1, i < k PROVE rest[i] = list[i]
      BY <2>1, <3>2, <3>4, <3>6
    <3> QED BY <2>1, <3>4, <3>5, <3>6
  <2> HIDE DEF rest
  <2>6. \A i \in 1 .. n : i # k => \E j \in 1 .. n - 1 : rest[j] = list[i]
    <3> TAKE i \in 1 .. n
    <3>1. CASE i < k
      <4>1. i \in 1 .. n - 1 /\ rest[i] = list[i]
        BY <2>1, <2>5, <3>1
      <4> QED BY <4>1
    <3>2. CASE i > k
      <4>1. i - 1 \in 1 .. n - 1 /\ rest[i - 1] = list[i]
        BY <2>1, <2>5, <3>2
      <4> QED BY <4>1
    <3> QED BY <2>1, <3>1, <3>2
  <2>7. \A j \in 1 .. n - 1 : \E i \in 1 .. n : i # k /\ rest[j] = list[i]
    <3> TAKE j \in 1 .. n - 1
    <3>1. CASE j < k
      BY <2>1, <2>5, <3>1
    <3>2. CASE j >= k
      <4>1. j + 1 \in 1 .. n /\ j + 1 # k /\ rest[j] = list[j + 1]
        BY <2>1, <2>5, <3>2
      <4> QED BY <4>1
    <3> QED BY <2>1, <3>1, <3>2
  <2>8. {rest[i] : i \in DOMAIN rest} = {list[i] : i \in DOMAIN list} \ {b}
    <3>1. \A i \in 1 .. n : i # k => list[i] # b
      BY <2>1
    <3>2. \A x \in {rest[i] : i \in DOMAIN rest} : x \in {list[i] : i \in DOMAIN list} \ {b}
      BY <2>5, <2>7, <3>1
    <3>3. \A x \in {list[i] : i \in DOMAIN list} \ {b} : x \in {rest[i] : i \in DOMAIN rest}
      <4> TAKE x \in {list[i] : i \in DOMAIN list} \ {b}
      <4>1. PICK i \in 1 .. n : list[i] = x /\ x # b
        OBVIOUS
      <4>2. PICK j \in 1 .. n - 1 : rest[j] = x
        BY <2>1, <2>6, <4>1
      <4> QED BY <2>5, <4>2
    <3> QED BY <3>2, <3>3
  <2>9. \A i, j \in DOMAIN rest : rest[i] = rest[j] => i = j
    BY <2>1, <2>5
  <2> QED BY <2>8, <2>9 DEF rest
<1> QED BY <1>1, <1>2

\* How a step changes which buffers exist, and the list with them.
ListSteps ==
  \/ /\ UNCHANGED bufferList
     /\ \A b \in Buffer : (status'[b] = "absent") = (status[b] = "absent")
  \/ \E b \in Buffer :
       /\ bufferList' = OnExec(b)
       /\ \A c \in Buffer : (status'[c] = "absent") = (c # b /\ status[c] = "absent")
  \/ \E b \in Buffer :
       /\ bufferList' = Without(bufferList, b)
       /\ \A c \in Buffer : (status'[c] = "absent") = (c = b \/ status[c] = "absent")

\* Every step changes the list and the buffers together.
LEMMA NextLists == TypeInv /\ [Next]_vars => ListSteps
<1> SUFFICES ASSUME TypeInv, [Next]_vars PROVE ListSteps
  OBVIOUS
<1> USE DEF ListSteps
<1>0. status \in [Buffer -> {"absent", "live", "dead", "left", "stuck"}]
  BY DEF TypeInv, TypeOK
<1>1. ASSUME NEW b \in Buffer, TerminalStep(b) PROVE ListSteps
  <2>1. CASE StartTerminal(b)
    BY <1>0, <2>1 DEF StartTerminal
  <2>2. ASSUME NEW scr, NEW handled, Output(b, scr, handled) PROVE ListSteps
    BY <2>2 DEF Output
  <2>3. CASE \E scr \in Screens : \/ PlainOutput(b, scr) \/ NewPrompt(b, scr) \/ PreCmd(b, scr)
                                  \/ \E cmd \in Command : SetCmd(b, scr, cmd)
    BY <2>2, <2>3 DEF PlainOutput, NewPrompt, PreCmd, SetCmd
  <2>4. CASE WindowChange(b)
    BY <2>2, <2>4 DEF WindowChange
  <2>5. CASE \E scr \in Screens : Resize(b, scr) \/ DrainFails(b, scr)
    BY <1>0, <2>5 DEF Resize, DrainFails
  <2>6. CASE ProcessDies(b)
    BY <1>0, <2>6 DEF ProcessDies
  <2>7. CASE Discard(b)
    BY <1>0, <2>7 DEF Discard
  <2>8. CASE Sentinel(b)
    BY <1>0, <2>7, <2>8 DEF Sentinel
  <2>9. CASE KillBuffer(b)
    BY <2>7, <2>9 DEF KillBuffer
  <2> QED BY <1>1, <2>1, <2>3, <2>4, <2>5, <2>6, <2>8, <2>9 DEF TerminalStep
<1>2. CASE Scan \/ Enable \/ Reload \/ Disable \/ Tick \/ LoseNotifier \/ UNCHANGED vars
  BY <1>2 DEF Scan, Enable, Reload, EnableBody, Disable, Tick, LoseNotifier, vars
<1> QED BY <1>1, <1>2 DEF Next

\* my/eat-buffer-list holds every terminal buffer once and no dead one, for any
\* number of terminals and whatever order starts, exits and kills come in.
THEOREM ListAlwaysMatchesBuffers == Spec => []ListMatchesBuffers
<1>1. Init => ListMatchesBuffers
  BY DEF Init, ListMatchesBuffers, Listed
<1>2. TypeInv /\ ListMatchesBuffers /\ [Next]_vars => ListMatchesBuffers'
  <2> SUFFICES ASSUME TypeInv, ListMatchesBuffers, [Next]_vars PROVE ListMatchesBuffers'
    OBVIOUS
  <2>1. bufferList \in Seq(Buffer)
    BY DEF TypeInv, TypeOK
  <2>2. CASE /\ UNCHANGED bufferList
             /\ \A b \in Buffer : (status'[b] = "absent") = (status[b] = "absent")
    BY <2>2 DEF ListMatchesBuffers, Listed
  <2>3. ASSUME NEW b \in Buffer, bufferList' = OnExec(b),
               \A c \in Buffer : (status'[c] = "absent") = (c # b /\ status[c] = "absent")
        PROVE  ListMatchesBuffers'
    <3>1. CASE b \in Listed
      BY <2>3, <3>1 DEF ListMatchesBuffers, Listed, OnExec
    <3>2. CASE b \notin Listed
      <4>1. bufferList' = Append(bufferList, b)
        BY <2>3, <3>2 DEF OnExec
      <4>2. /\ Len(bufferList) \in Nat /\ DOMAIN bufferList = 1 .. Len(bufferList)
            /\ DOMAIN bufferList' = 1 .. Len(bufferList) + 1
            /\ \A i \in 1 .. Len(bufferList) : bufferList'[i] = bufferList[i]
            /\ bufferList'[Len(bufferList) + 1] = b
        BY <2>1, <4>1
      <4>3. \A i \in 1 .. Len(bufferList) : bufferList[i] # b
        BY <3>2, <4>2 DEF Listed
      <4>4. Listed' = Listed \cup {b}
        BY <4>2 DEF Listed
      <4>5. \A i, j \in DOMAIN bufferList' : bufferList'[i] = bufferList'[j] => i = j
        BY <4>2, <4>3 DEF ListMatchesBuffers
      <4> QED BY <2>3, <4>4, <4>5 DEF ListMatchesBuffers
    <3> QED BY <3>1, <3>2
  <2>4. ASSUME NEW b \in Buffer, bufferList' = Without(bufferList, b),
               \A c \in Buffer : (status'[c] = "absent") = (c = b \/ status[c] = "absent")
        PROVE  ListMatchesBuffers'
    <3>1. /\ Listed' = Listed \ {b}
          /\ \A i, j \in DOMAIN bufferList' : bufferList'[i] = bufferList'[j] => i = j
      BY <2>1, <2>4, WithoutOnce DEF ListMatchesBuffers, Listed
    <3> QED BY <2>4, <3>1 DEF ListMatchesBuffers
  <2> QED BY <2>2, <2>3, <2>4, NextLists DEF ListSteps
<1> QED BY <1>1, <1>2, TypeInit, TypeStep, PTL DEF Spec

-----------------------------------------------------------------------------
(* The mode switched off. *)

\* While the mode is off nothing is announced and the mode line is blank, if
\* eat-term.el was not loaded again.
THEOREM ModeOffAlwaysQuiet == Spec => []ModeOffQuiet
<1>1. Init => ModeOffQuiet
  BY DEF Init, ModeOffQuiet
<1>2. TypeInv /\ ModeOffQuiet /\ [Next]_vars => ModeOffQuiet'
  <2> SUFFICES ASSUME TypeInv, ModeOffQuiet, [Next]_vars, ~mode', reloads' = 0
               PROVE  alerts' = {} /\ modeLine' = Blank
    BY DEF ModeOffQuiet, Blank
  <2>1. ASSUME NEW b \in Buffer, TerminalStep(b) PROVE alerts' = {} /\ modeLine' = Blank
    <3>1. UNCHANGED supervision
      BY <2>1 DEF TerminalStep, StartTerminal, PlainOutput, NewPrompt, SetCmd, PreCmd, Output, Resize,
                  DrainFails, WindowChange, ProcessDies, Sentinel, KillBuffer
    <3>2. ~mode /\ modeLine' = Blank
      BY <3>1 DEF supervision, ModeOffQuiet
    <3>3. alerts' = {}
      BY <2>1, <3>2, SilentStep DEF Sentinel
    <3> QED BY <3>2, <3>3
  <2>2. CASE Scan
    BY <2>2 DEF Scan, TypeInv, TimersAccounted
  <2>3. CASE EnableBody \/ Disable \/ Tick \/ LoseNotifier \/ UNCHANGED vars
    BY <2>3 DEF EnableBody, Disable, Tick, LoseNotifier, supervision, vars, ModeOffQuiet
  <2> QED BY <2>1, <2>2, <2>3 DEF Next, Enable, Reload
<1> QED BY <1>1, <1>2, TypeInit, TypeStep, PTL DEF Spec
-----------------------------------------------------------------------------
(* How the report of an ended session comes nearer.  What fairness must still *)
(* give is that the clock and the scans go on.                                *)

\* The end of a session of b is to be reported, and nothing may postpone it.
DoneDue(b) == loc[b].pending # "none" /\ ~loc[b].idleAlerted /\ ~Postponed(b)

\* How far the report is: the scan that sees the terminal idle, the rest of the
\* debounce, and the scan that reports.
Distance(b) ==
  IF loc[b].state # "idle" THEN Debounce + 2 ELSE Debounce + 1 - loc[b].stateAge

\* The steps that bring it nearer: the clock during the debounce, before and
\* after it a scan that no alert ends.
Brings(b) ==
  IF loc[b].state = "idle" /\ loc[b].stateAge < Debounce THEN Tick
  ELSE Scan /\ Failing = {}

\* Scans go on, and come to the terminal.
DoneCanGo ==
  \A b \in Buffer : DoneDue(b) =>
    b \in Listed /\ timers > 0 /\ Distance(b) \in 1 .. Debounce + 2

DoneComesNearer ==
  \A b \in Buffer : DoneDue(b) /\ DoneDue(b)' =>
    /\ Distance(b)' <= Distance(b)
    /\ Brings(b) => Distance(b)' # Distance(b)

LEMMA DistanceType ==
  ASSUME SessionInv, NEW b \in Buffer
  PROVE  /\ loc[b] \in Local /\ SessionConsistent(loc[b])
         /\ loc[b].stateAge \in 0 .. Debounce /\ Debounce \in Nat
         /\ Distance(b) \in 1 .. Debounce + 2
<1>1. loc[b] \in Local /\ SessionConsistent(loc[b])
  BY DEF SessionInv, TypeInv, TypeOK
<1>2. loc[b].stateAge \in 0 .. Debounce /\ Debounce \in Nat
  BY <1>1, IntervalAssumption DEF IntervalAssumption, Local
<1> QED BY <1>1, <1>2 DEF Distance

\* The steps of a terminal leave the debounce alone, also output.
LEMMA HandlersKeepState ==
  ASSUME NEW l \in Local, NEW scr, NEW cmd
  PROVE  /\ NoteOutput(l, scr).state = l.state /\ NoteOutput(l, scr).stateAge = l.stateAge
         /\ OnNewPrompt(l).state = l.state /\ OnNewPrompt(l).stateAge = l.stateAge
         /\ OnSetCmd(l, cmd).state = l.state /\ OnSetCmd(l, cmd).stateAge = l.stateAge
         /\ OnPreCmd(l).state = l.state /\ OnPreCmd(l).stateAge = l.stateAge
  BY DEF NoteOutput, OnNewPrompt, OnSetCmd, OnPreCmd, Local

\* A chunk of output.
LEMMA OutputKeepsState ==
  ASSUME SessionInv, NEW b \in Buffer, NEW scr, NEW handled \in Local, Output(b, scr, handled),
         handled.state = loc[b].state, handled.stateAge = loc[b].stateAge
  PROVE  loc'[b].state = loc[b].state /\ loc'[b].stateAge = loc[b].stateAge
<1>1. loc[b] \in Local
  BY DistanceType
<1>2. loc'[b] = NoteOutput(handled, scr) \/ loc'[b] = NoteOutput(loc[b], scr)
  BY DEF Output, SessionInv, TypeInv, TypeOK
<1> QED BY <1>1, <1>2, HandlersKeepState

\* The steps of the terminals, if b stays one whose report is due.
LEMMA TerminalKeepsState ==
  ASSUME SessionInv, NEW b \in Buffer, NEW c \in Buffer, TerminalStep(c),
         status[b] = "live", status'[b] = "live"
  PROVE  loc'[b].state = loc[b].state /\ loc'[b].stateAge = loc[b].stateAge
<1>0. /\ loc[c] \in Local /\ loc \in [Buffer -> Local]
      /\ status \in [Buffer -> {"absent", "live", "dead", "left", "stuck"}]
  BY DEF SessionInv, TypeInv, TypeOK
<1>1. CASE c # b
  <2>1. loc'[b] = loc[b]
    BY <1>0, <1>1 DEF TerminalStep, StartTerminal, PlainOutput, NewPrompt, SetCmd, PreCmd, WindowChange,
       Output, Resize, DrainFails, ProcessDies, Sentinel, KillBuffer, Discard
  <2> QED BY <2>1
<1>2. CASE c = b
  <2>1. ~StartTerminal(b) /\ ~ProcessDies(b) /\ ~Sentinel(b) /\ ~KillBuffer(b)
    BY <1>0 DEF StartTerminal, ProcessDies, Sentinel, KillBuffer, Discard
  <2>2. CASE \E scr \in Screens : Resize(b, scr) \/ DrainFails(b, scr)
    BY <2>2 DEF Resize, DrainFails
  <2>3. CASE WindowChange(b) \/ \E scr \in Screens : PlainOutput(b, scr)
    BY <1>0, <1>2, <2>3, OutputKeepsState DEF WindowChange, PlainOutput
  <2>4. CASE \E scr \in Screens : NewPrompt(b, scr)
    BY <1>0, <1>2, <2>4, OutputKeepsState, OnNewPromptType, HandlersKeepState DEF NewPrompt
  <2>5. CASE \E scr \in Screens, cmd \in Command : SetCmd(b, scr, cmd)
    BY <1>0, <1>2, <2>5, OutputKeepsState, OnSetCmdType, HandlersKeepState DEF SetCmd
  <2>6. CASE \E scr \in Screens : PreCmd(b, scr)
    BY <1>0, <1>2, <2>6, OutputKeepsState, OnPreCmdType, HandlersKeepState DEF PreCmd
  <2> QED BY <1>2, <2>1, <2>2, <2>3, <2>4, <2>5, <2>6 DEF TerminalStep
<1> QED BY <1>1, <1>2

\* A scan sees a terminal whose report is due as idle: the shell that took over
\* from the agent has no question and no work of its own.
LEMMA DueSurvey ==
  ASSUME SessionInv, NEW b \in Buffer, DoneDue(b)
  PROVE  Survey(b) = Entered(loc[b], "idle")
<1> DEFINE l == loc[b]
<1>1. l \in Local /\ l.agent = "shell"
  BY DistanceType DEF DoneDue, SessionConsistent
<1>2. DetectAgent(l, screen[b]) = l.agent
  BY <1>1 DEF DetectAgent
<1>3. [l EXCEPT !.agent = l.agent] = l
  BY <1>1 DEF Local
<1>4. status[b] = "live" /\ l.commandRunning = FALSE
      /\ ~(WorkingMarkerP(l.agent, screen[b]) /\ Fresh(l))
  BY <1>1 DEF DoneDue, Postponed, Local
<1> HIDE DEF l
<1>5. RefreshMarker(l, screen[b]) = l
  BY <1>4 DEF RefreshMarker
<1>6. DetectState(l, screen[b], TRUE) = "idle"
  <2>1. ~WorkingHeldP(l)
    BY <1>1 DEF WorkingHeldP, Coding
  <2>2. ~AwaitingApprovalP(l.agent, screen[b])
    BY <1>1 DEF AwaitingApprovalP, ApprovalMarkers, Shows
  <2> QED BY <1>4, <2>1, <2>2 DEF DetectState, ShowsWork
<1>7. Survey(b) = Surveyed(l, screen[b], TRUE)
  BY <1>4 DEF Survey, l
<1>8. Surveyed(l, screen[b], TRUE) = Entered(l, "idle")
  BY <1>2, <1>3, <1>5, <1>6 DEF Surveyed
<1> QED BY <1>7, <1>8 DEF l

\* What that scan leaves, if it does not report.
LEMMA ScanDue ==
  ASSUME SessionInv, NEW b \in Buffer, DoneDue(b), Scan, loc'[b].pending # "none"
  PROVE  /\ loc'[b] = loc[b] \/ loc'[b] = Entered(loc[b], "idle")
         /\ Failing = {} /\ b \in Listed =>
              loc'[b] = Entered(loc[b], "idle") /\ ~IdleAlertDue(Entered(loc[b], "idle"))
<1> DEFINE S == Entered(loc[b], "idle")
<1>1. Survey(b) = S
  BY DueSurvey
<1>2. S \in Local
  BY <1>1, SurveyType DEF SessionInv
<1> HIDE DEF S
<1>3. (AlertIdle(S) = S /\ ~IdleAlertDue(S)) \/ AlertIdle(S).pending = "none"
  BY <1>2 DEF AlertIdle, Local
<1>4. loc'[b] = AlertIdle(S) \/ loc'[b] = S \/ loc'[b] = loc[b]
  BY <1>1 DEF Scan
<1>5. Failing = {} /\ b \in Listed => loc'[b] = AlertIdle(S)
  BY <1>1 DEF Scan, Listed
<1>6. loc'[b] = loc[b] \/ loc'[b] = S
  BY <1>3, <1>4
<1>7. Failing = {} /\ b \in Listed => loc'[b] = S /\ ~IdleAlertDue(S)
  BY <1>3, <1>5
<1> QED BY <1>6, <1>7 DEF S
\* What an idle terminal's entry into the idle state leaves.
LEMMA EnteredIdle ==
  ASSUME NEW l \in Local
  PROVE  /\ l.state = "idle" => Entered(l, "idle") = l
         /\ l.state # "idle" => Entered(l, "idle").state = "idle" /\ Entered(l, "idle").stateAge = 0
  BY DEF Entered, Local

\* Nothing puts the report off, as long as it stays due.
LEMMA DoneNotFarther ==
  ASSUME SessionInv, [Next]_vars, NEW b \in Buffer, DoneDue(b), DoneDue(b)'
  PROVE  Distance(b)' <= Distance(b)
<1>0. /\ loc[b] \in Local /\ loc[b].stateAge \in 0 .. Debounce /\ Debounce \in Nat
      /\ Distance(b) \in 1 .. Debounce + 2
      /\ status[b] = "live" /\ status'[b] = "live" /\ loc'[b].pending # "none"
      /\ loc \in [Buffer -> Local]
  BY DistanceType DEF DoneDue, Postponed, SessionInv, TypeInv, TypeOK
<1>1. ASSUME loc'[b].state = loc[b].state, loc'[b].stateAge = loc[b].stateAge
      PROVE  Distance(b)' <= Distance(b)
  <2>1. Distance(b)' = Distance(b)
    BY <1>1 DEF Distance
  <2> QED BY <1>0, <2>1
<1>2. CASE \E c \in Buffer : TerminalStep(c)
  BY <1>0, <1>1, <1>2, TerminalKeepsState
<1>3. CASE Scan
  <2>1. CASE loc'[b] = loc[b]
    BY <1>1, <2>1
  <2>2. CASE loc'[b] = Entered(loc[b], "idle") /\ loc[b].state # "idle"
    <3>1. loc'[b].state = "idle" /\ loc'[b].stateAge = 0
      BY <1>0, <2>2, EnteredIdle
    <3>2. Distance(b)' = Debounce + 1 - 0 /\ Distance(b) = Debounce + 2
      BY <2>2, <3>1 DEF Distance
    <3> QED BY <1>0, <3>2
  <2> QED BY <1>0, <1>3, <2>1, <2>2, ScanDue, EnteredIdle
<1>4. CASE EnableBody
  <2>1. loc'[b] = InitBuffer \/ loc'[b] = loc[b]
    BY <1>4 DEF EnableBody
  <2>2. loc'[b] # InitBuffer
    BY <1>0 DEF InitBuffer, DefaultLocal
  <2> QED BY <1>1, <2>1, <2>2
<1>5. CASE Tick
  <2>1. loc'[b] = Older(loc[b])
    BY <1>5 DEF Tick
  <2>2. loc'[b].state = loc[b].state
    BY <1>0, <2>1 DEF Older, Local
  <2>3. loc'[b].stateAge = IF loc[b].stateAge < Debounce THEN loc[b].stateAge + 1 ELSE loc[b].stateAge
    BY <1>0, <2>1 DEF Older, Local
  <2>4. CASE loc[b].stateAge < Debounce /\ loc[b].state = "idle"
    <3>1. Distance(b)' = Debounce + 1 - (loc[b].stateAge + 1)
          /\ Distance(b) = Debounce + 1 - loc[b].stateAge
      BY <2>2, <2>3, <2>4 DEF Distance
    <3> QED BY <1>0, <3>1
  <2>5. CASE loc[b].state # "idle"
    <3>1. Distance(b)' = Distance(b)
      BY <2>2, <2>5 DEF Distance
    <3> QED BY <1>0, <3>1
  <2>6. CASE ~(loc[b].stateAge < Debounce)
    BY <1>1, <2>2, <2>3, <2>6
  <2> QED BY <2>4, <2>5, <2>6
<1>6. CASE Disable \/ LoseNotifier \/ UNCHANGED vars
  BY <1>1, <1>6 DEF Disable, LoseNotifier, vars
<1> QED BY <1>2, <1>3, <1>4, <1>5, <1>6 DEF Next, Enable, Reload

\* The clock and the scans bring it nearer, or make it.
LEMMA DoneBrought ==
  ASSUME SessionInv, ListMatchesBuffers, NEW b \in Buffer, DoneDue(b), DoneDue(b)', Brings(b)
  PROVE  Distance(b)' # Distance(b)
<1>0. /\ loc[b] \in Local /\ loc[b].stateAge \in 0 .. Debounce /\ Debounce \in Nat
      /\ status[b] = "live" /\ loc'[b].pending # "none" /\ b \in Listed
  BY DistanceType DEF DoneDue, Postponed, ListMatchesBuffers
<1>1. CASE loc[b].state = "idle" /\ loc[b].stateAge < Debounce
  <2>1. loc'[b] = Older(loc[b])
    BY <1>1 DEF Brings, Tick
  <2>2. loc'[b].state = "idle" /\ loc'[b].stateAge = loc[b].stateAge + 1
    BY <1>0, <1>1, <2>1 DEF Older, Local
  <2>3. Distance(b)' = Debounce + 1 - (loc[b].stateAge + 1)
        /\ Distance(b) = Debounce + 1 - loc[b].stateAge
    BY <1>1, <2>2 DEF Distance
  <2> QED BY <1>0, <2>3
<1>2. CASE ~(loc[b].state = "idle" /\ loc[b].stateAge < Debounce)
  <2>1. Scan /\ Failing = {}
    BY <1>2 DEF Brings
  <2>2. loc'[b] = Entered(loc[b], "idle") /\ ~IdleAlertDue(Entered(loc[b], "idle"))
    BY <1>0, <2>1, ScanDue
  <2>3. CASE loc[b].state = "idle"
    <3>1. ~IdleAlertDue(loc[b]) /\ loc[b].stateAge >= Debounce
      BY <1>0, <1>2, <2>2, <2>3, EnteredIdle
    <3>2. SessionOver(loc[b]) /\ loc[b].idleAlerted = FALSE
      BY <1>0, DistanceType DEF SessionOver, DoneDue, SessionConsistent, Local
    <3> QED BY <2>3, <3>1, <3>2 DEF IdleAlertDue
  <2>4. CASE loc[b].state # "idle"
    <3>1. loc'[b].state = "idle" /\ loc'[b].stateAge = 0
      BY <1>0, <2>2, <2>4, EnteredIdle
    <3>2. Distance(b)' = Debounce + 1 - 0 /\ Distance(b) = Debounce + 2
      BY <2>4, <3>1 DEF Distance
    <3> QED BY <1>0, <3>2
  <2> QED BY <2>3, <2>4
<1> QED BY <1>1, <1>2

\* The end of a session that finds the idle alert unsent comes ever nearer to its
\* report, whatever the terminals and the user do meanwhile, for any debounce:
\* no step puts it off, and the clock and the scans that no alert ends bring it
\* nearer, so that Debounce + 2 of them make it (my/eat-sup--scan,
\* my/eat-sup--alert-idle).
THEOREM DoneAlwaysComesNearer == Spec => []DoneCanGo /\ [][DoneComesNearer]_vars
<1>1. SessionInv /\ ListMatchesBuffers => DoneCanGo
  <2> SUFFICES ASSUME SessionInv, ListMatchesBuffers, NEW b \in Buffer, DoneDue(b)
               PROVE  b \in Listed /\ timers > 0 /\ Distance(b) \in 1 .. Debounce + 2
    BY DEF DoneCanGo
  <2>1. status[b] = "live" /\ timers # 0 /\ timers \in Nat
    BY DEF DoneDue, Postponed, SessionInv, TypeInv, TypeOK
  <2> QED BY <2>1, DistanceType DEF ListMatchesBuffers
<1>2. SessionInv /\ ListMatchesBuffers /\ [Next]_vars => DoneComesNearer
  BY DoneNotFarther, DoneBrought DEF DoneComesNearer
<1> QED BY <1>1, <1>2, SessionInvariant, ListAlwaysMatchesBuffers, PTL DEF Spec
-----------------------------------------------------------------------------
(* What a scan sees. *)

\* The state that a scan finds b in.
Seen(b) ==
  DetectState(RefreshMarker([loc[b] EXCEPT !.agent = DetectAgent(loc[b], screen[b])], screen[b]),
              screen[b], status[b] = "live")

\* A question is announced of a running terminal whose screen shows it, of the
\* agent that asks, and when no scan has seen it ask yet: it is not announced
\* again before a scan has found the terminal in another state, or its variables
\* have begun afresh.
QuestionsTrue ==
  \A b \in Buffer, agent \in Coding : <<b, "approval", agent>> \in alerts' =>
    /\ status[b] = "live" /\ AwaitingApprovalP(agent, screen[b])
    /\ loc[b].state # "awaiting"
    /\ loc'[b].state = "awaiting" /\ loc'[b].agent = agent

\* A scan that no alert ends comes to every terminal, announces every question
\* that is new to it, and no longer shows a terminal as working that has been
\* silent for the grace period.
ScanSees ==
  Scan /\ Failing = {} =>
    \A b \in Listed :
      /\ Asks(b) /\ loc[b].state # "awaiting"
           => \E agent \in Coding : <<b, "approval", agent>> \in alerts'
      /\ ~Fresh(loc[b]) => loc'[b].state # "working"
      /\ loc'[b].state # "unknown"

LEMMA SeenFacts ==
  ASSUME TypeInv, NEW b \in Buffer
  PROVE  /\ Survey(b) \in Local
         /\ Survey(b).state = Seen(b) /\ Survey(b).agent = DetectAgent(loc[b], screen[b])
         /\ AlertIdle(Survey(b)).state = Seen(b)
         /\ Seen(b) = "awaiting" <=>
              status[b] = "live" /\ AwaitingApprovalP(DetectAgent(loc[b], screen[b]), screen[b])
         /\ Seen(b) = "working" => Fresh(loc[b])
         /\ Seen(b) # "unknown"
<1> DEFINE agent == DetectAgent(loc[b], screen[b])
           named == [loc[b] EXCEPT !.agent = agent]
           m == RefreshMarker(named, screen[b])
<1>1. loc[b] \in Local
  BY DEF TypeInv, TypeOK
<1>2. agent \in Agent
  BY <1>1, DetectAgentType
<1> HIDE DEF agent
<1>3. named \in Local /\ named.agent = agent /\ named.outputAge = loc[b].outputAge
  BY <1>1, <1>2 DEF Local
<1> HIDE DEF named
<1>4. m \in Local /\ m.agent = agent /\ m.outputAge = loc[b].outputAge
  BY <1>3, RefreshMarkerType DEF RefreshMarker, Local
<1>5. Survey(b) = Entered(m, Seen(b))
  BY DEF Survey, Surveyed, Seen, named, agent
<1>6. Seen(b) = DetectState(m, screen[b], status[b] = "live")
  BY DEF Seen, named, agent
<1> HIDE DEF m
<1>7. Survey(b).state = Seen(b) /\ Survey(b).agent = agent
  BY <1>4, <1>5 DEF Entered, Local
<1>8. Survey(b) \in Local /\ AlertIdle(Survey(b)).state = Survey(b).state
  <2>1. Survey(b) \in Local
    BY SurveyType
  <2> QED BY <2>1 DEF AlertIdle, Local
<1>9. Seen(b) = "awaiting" <=> status[b] = "live" /\ AwaitingApprovalP(agent, screen[b])
  BY <1>4, <1>6 DEF DetectState
<1>10. Seen(b) = "working" => Fresh(loc[b])
  BY <1>4, <1>6 DEF DetectState, ShowsWork, Fresh
<1>11. Seen(b) # "unknown"
  BY <1>6 DEF DetectState
<1> QED BY <1>7, <1>8, <1>9, <1>10, <1>11 DEF agent

\* What a scan announces and sees.
LEMMA ScanAnnounces ==
  ASSUME TypeInv, Scan
  PROVE  QuestionsTrue /\ ScanSees
<1>1. ASSUME NEW b \in Buffer, NEW agent \in Coding, <<b, "approval", agent>> \in alerts'
      PROVE  /\ status[b] = "live" /\ AwaitingApprovalP(agent, screen[b])
             /\ loc[b].state # "awaiting"
             /\ loc'[b].state = "awaiting" /\ loc'[b].agent = agent
  <2>1. PICK i \in DOMAIN bufferList :
          /\ \A j \in Failing : i < j
          /\ <<b, "approval", agent>> \in DueAlerts(bufferList[i])
    BY <1>1 DEF Scan
  <2>2. bufferList[i] = b
    BY <2>1 DEF DueAlerts, Notify
  <2>3. Survey(b).state = "awaiting" /\ loc[b].state # "awaiting" /\ agent = Survey(b).agent
    BY <2>1, <2>2 DEF DueAlerts, Notify
  <2>4. loc'[b] = AlertIdle(Survey(b))
    BY <2>1, <2>2 DEF Scan
  <2>5. AlertIdle(Survey(b)) = Survey(b)
    BY <2>3 DEF AlertIdle, IdleAlertDue
  <2> QED BY <2>3, <2>4, <2>5, SeenFacts
<1>2. ASSUME Failing = {}, NEW b \in Listed
      PROVE  /\ Asks(b) /\ loc[b].state # "awaiting"
                  => \E agent \in Coding : <<b, "approval", agent>> \in alerts'
             /\ ~Fresh(loc[b]) => loc'[b].state # "working"
             /\ loc'[b].state # "unknown"
  <2>1. b \in Buffer
    BY DEF Listed, TypeInv, TypeOK
  <2>2. loc'[b] = AlertIdle(Survey(b)) /\ DueAlerts(b) \subseteq alerts'
    BY <1>2, <2>1 DEF Scan, Listed
  <2>3. ASSUME Asks(b), loc[b].state # "awaiting"
        PROVE  \E agent \in Coding : <<b, "approval", agent>> \in alerts'
    <3>1. loc[b].agent \in Coding
      BY <2>3 DEF Asks, AwaitingApprovalP, ApprovalMarkers, Shows, Coding
    <3>2. DetectAgent(loc[b], screen[b]) = loc[b].agent
      BY <3>1 DEF DetectAgent, Coding
    <3>3. Survey(b).state = "awaiting" /\ Survey(b).agent = loc[b].agent
      BY <2>1, <2>3, <3>2, SeenFacts DEF Asks
    <3>4. <<b, "approval", loc[b].agent>> \in DueAlerts(b)
      BY <2>3, <3>1, <3>3 DEF DueAlerts, Notify
    <3> QED BY <2>2, <3>1, <3>4
  <2> QED BY <2>1, <2>2, <2>3, SeenFacts
<1> QED BY <1>1, <1>2 DEF QuestionsTrue, ScanSees

\* A question is announced when a scan first sees it and only then, of the agent
\* that asks; and a scan that no alert ends sees every terminal as it is
\* (my/eat-sup--scan, my/eat-sup--detect-state).
THEOREM ScansAlwaysTrue == Spec => [][QuestionsTrue /\ ScanSees]_vars
<1>1. TypeInv /\ [Next]_vars => [QuestionsTrue /\ ScanSees]_vars
  <2> SUFFICES ASSUME TypeInv, Next PROVE QuestionsTrue /\ ScanSees
    OBVIOUS
  <2>1. CASE Scan
    BY <2>1, ScanAnnounces
  <2>2. CASE ~Scan
    <3>1. ASSUME NEW b \in Buffer, NEW agent \in Coding, <<b, "approval", agent>> \in alerts'
          PROVE  FALSE
      <4>1. ASSUME NEW c \in Buffer, TerminalStep(c) PROVE FALSE
        <5>1. CASE Sentinel(c)
          BY <3>1, <5>1 DEF Sentinel, Notify
        <5>2. CASE ~Sentinel(c)
          BY <3>1, <4>1, <5>2, SilentStep
        <5> QED BY <5>1, <5>2
      <4>2. CASE EnableBody \/ Disable \/ Tick \/ LoseNotifier
        BY <3>1, <4>2 DEF EnableBody, Disable, Tick, LoseNotifier
      <4> QED BY <2>2, <4>1, <4>2 DEF Next, Enable, Reload
    <3> QED BY <2>2, <3>1 DEF QuestionsTrue, ScanSees
  <2> QED BY <2>1, <2>2
<1> QED BY <1>1, TypeInit, TypeStep, PTL DEF Spec
=============================================================================
