CONSTANTS
  Commands <- MCCommands
  Interval = 2
  MinGap = 5
  Total = 1
  MaxClock = 8
SPECIFICATION FairSpec
INVARIANTS VerdictIsLast EveryTransferShows ProgressIsOrderly ExitTellsTheFile
PROPERTIES CommandReturns
