SPECIFICATION FairSpec
CONSTANTS
  MaxBytes = 3
  Chunks = {0, 1, 2, 3}
  Declared <- MCDeclared
  NoLength = NoLength
  MaxSent = 6
  MaxParts = 2
INVARIANTS
  HandlerWithinLimit
  OneResponse
  TooLargeIsTold
PROPERTIES
  CutIsAnswered
