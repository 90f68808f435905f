CONSTANTS
  Buffer = {b1}
  Command = {"runClaude", "runCodex", "make", "garbled"}
  CommandAgent <- MCCommandAgent
  NoCommand = NoCommand
  Screens <- MCScreens
  Grace = 2
  Hold = 1
  Debounce = 1
  MaxToggles = 1
  MaxReloads = 1
  NotifierMayBreak = TRUE
SPECIFICATION Spec
INVARIANTS
  TypeOK
  PendingExcludesSession
  CommandNamesAgent
  IdleAlertedWhileIdle
  ModeOffQuiet
  ListMatchesBuffers
  TimersAccounted
PROPERTY ReportsSessions
