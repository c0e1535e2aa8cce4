SPECIFICATION Spec
CONSTANTS
  Files = {"f"}
  Urls = {"u", "v"}
  MaxArrival = 1
  Extra = 0
  Text <- Written
  Plans <- Several
INVARIANTS TypeOK PushedBackOnce LeftoverIsWhite ObjectsInOrder EndIsTrue CharactersInOrder
PROPERTY ReadsReturn
