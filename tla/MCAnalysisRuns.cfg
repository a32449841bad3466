SPECIFICATION FairSpec
CONSTANTS
  Readers = {p1, p2}
  Buf = 1
  MaxEvents = 2
  MaxOpens = 2
INVARIANT ReadersMissNothing
INVARIANT HubAgrees
PROPERTY ReaderIsAnswered
