SPECIFICATION Spec
CONSTANTS
  Files = {"f"}
  Urls = {"u", "v"}
  MaxArrival = 1
  Extra = 1
  Text <- Written
  Plans <- Little
PROPERTY ReadsReturn
