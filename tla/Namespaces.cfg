SPECIFICATION Spec
CONSTANTS
  Name <- TwoNames
  HashOf <- TheirHash
  Value <- TwoValues
  Map <- OneMapMore
  Oblist = "oblist"
  Sizes = {0, 1}
  OblistSize = 2
  MaxScopes = 1
  MaxWeight = 3
INVARIANTS
  TypeOK
  PairsInTheirBucket
  InternedIsBound
PROPERTIES
  ImplementsScopes
