SPECIFICATION Spec
CONSTANTS
  ArgsInFrame = 2
  Base = 64
  SmallIntLimit = 3
  IntLimit = 32
  Garbage = {0, 3}
  Radix = 10
  Names = {x, y}
  Texts <- SomeTexts
  MaxCalls = 1
INVARIANT AnswerLive
