CONSTANTS
  good = good
  old = old
  None = None
  Handle = {h1, h2}
  Tree = {t1, t2}
  Language = {good, old}
  Text <- MCText
  ChunkSize = 3
  UsizeSize = 16
  MaxDepth = 2
  MaxEdits = 1
  KindCount = 2
  ErrorKind = 15
  Abi <- MCAbi
  MinAbi = 13
  MaxAbi = 15
  Children = 2
  ResetElsewhere = FALSE
  MaxVisits = 2
  Captures = 2
  MaxMatches = 2
  CaptureOf <- MCCaptureOf
  PatternOf <- MCPatternOf
SPECIFICATION Spec
SYMMETRY MCSymmetry
INVARIANTS
  TypeOK
  FlagsTell
  HeldTreesUnedited
  TreesAreWhole
  AnswersAreTrue
PROPERTIES
  RefusalsExplained
