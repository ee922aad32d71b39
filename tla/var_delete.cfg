SPECIFICATION MCSpec
CONSTANTS
  MaxItems = 3
  MaxName = 3
  MaxData = 2
  Char8Modulus = 4
  Names <- MCNames
  Guids = {g1, g2}
  Attributes = {0, 7}
  Sizes = {0, 1, 2, 3}
  Bytes = {b1}
  Null = Null
  Columns = 3
  RowsOf <- MCRowsOf
  Messages <- MCMessages
  Positions <- MCPositions
  ModeNumbers = {0, 1, 2, 15, 16}
  IntModulus = 16
  MaxEvents = 3
  Notifies = {n1, n2}
  NoEvent = NoEvent
  MaxCalls = 5
INVARIANT DeleteRemoves
