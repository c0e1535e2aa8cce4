SPECIFICATION Spec
CONSTANTS
  NPages = 3
  PageSize = 3
  NSlots = 2
  MaxRef = 2
  MaxHeld = 1
  CounterRange = 3
  StaleCounts <- AnyStale
  PinnedArgs <- OnlyNil
  Tags <- Atoms
INVARIANTS
  StoreInv
  LedgerBalanced
PROPERTIES
  PagesOnlyWhenFull
