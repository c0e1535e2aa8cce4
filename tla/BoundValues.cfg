SPECIFICATION Spec
CONSTANTS
  ArgsInFrame = 3
  StackLimit = 30
  Programs <- TwoPrograms
INVARIANTS
  BoundValuesLive
