SPECIFICATION FairSpec
CONSTANTS
  NPages = 1
  PageSize = 5
  NSlots = 2
  MaxRef = 3
  MaxHeld = 1
  CounterRange = 1
  StaleCounts <- Zero
  PinnedArgs <- OnlyNil
  Tags <- Objects
INVARIANTS
  TypeOK
  CountsReferences
  NoDanglingReference
  NoGarbage
  NoCycles
  CountInv
PROPERTIES
  LockedIn
  CascadeEnds
  ImplementsSafeStore
