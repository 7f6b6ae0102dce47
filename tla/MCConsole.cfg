CONSTANTS
  Character <- Alphabet
  Lines <- SmallLines
  Commands <- SmallCommands
  InfoPieces = 3
  Pages = 2
  Accepts <- SmallAccepts
  Ends <- SmallEnds
  BufSize = 4
  StatusSize = 58
  Stack <- SmallStack
SPECIFICATION Spec
INVARIANT TypeOK
INVARIANT BufferIndexInBounds
INVARIANT NothingLeftOver
INVARIANT StatusTerminated
PROPERTY ImplementsShell
PROPERTY AnswerFinished
