CONSTANTS
  Buffer = {b1, b2}
  Command = {"runClaude"}
  CommandAgent <- MCCommandAgent
  NoCommand = NoCommand
  Screens <- MCBlankScreens
  Grace = 0
  Hold = 0
  Debounce = 1
  MaxToggles = 0
  MaxReloads = 0
  NotifierMayBreak = TRUE
SPECIFICATION FairSpec
PROPERTIES
  EveryBufferScanned
