CONSTANTS
  Buffer = {b1}
  Command = {"runClaude"}
  CommandAgent <- MCCommandAgent
  NoCommand = NoCommand
  Screens <- MCBlankScreens
  Grace = 1
  Hold = 1
  Debounce = 1
  MaxToggles = 0
  MaxReloads = 0
  NotifierMayBreak = FALSE
SPECIFICATION FairSpec
PROPERTIES
  DoneFiresReliably
