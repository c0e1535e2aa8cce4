SPECIFICATION Spec
CONSTANTS
  Chars <- NullAndMore
  HashRange = 4
  Shipyard = 4
  TextTags <- OneType
  MaxCells = 4
INVARIANTS
  EqualLooksTheSame
