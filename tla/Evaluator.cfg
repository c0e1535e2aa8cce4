SPECIFICATION Spec
CONSTANTS
  ArgsInFrame = 3
  StackLimit = 30
  Programs <- AllPrograms
INVARIANTS
  TypeOK
  StackSound
  CountsCover
  NoFrameLeft
  AnswersAsDocumented
PROPERTIES
  Returns
