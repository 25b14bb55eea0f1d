CONSTANTS
  SDPs <- MCSDPs
  Garbage <- MCGarbage
  MaxPastes = 3
  NoLine = NoLine
SPECIFICATION FairSpec
INVARIANTS IntactNeverRefused AcceptedIsCanonical
PROPERTIES AnswerTaken FlagSettles
CHECK_DEADLOCK FALSE
