CONSTANTS
  Buffer = {b1}
  Command = {"runClaude", "garbled"}
  CommandAgent <- MCCommandAgent
  NoCommand = NoCommand
  Screens <- MCFewScreens
  Grace = 2
  Hold = 1
  Debounce = 1
  MaxToggles = 1
  MaxReloads = 0
  NotifierMayBreak = FALSE
SPECIFICATION FairSpec
PROPERTIES
  DoneReported
  QuestionAnnounced
  SilentWorkClears
