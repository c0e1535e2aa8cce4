SPECIFICATION FairSpec
CONSTANTS
  Chars <- NullAndMore
  HashRange = 4
  Shipyard = 4
  TextTags <- OneType
  MaxCells = 4
INVARIANTS
  TypeOK
  CopiesAreEqual
  EqualTextsHashAlike
  EqualReadsLookTheSame
PROPERTIES
  EqualReturns
