SPECIFICATION NumbersSpec
CONSTANTS
  LongBits = 5
  IntBits = 8
  BufferSize = 5
  Code <- MCCode
  Formats <- MCFormats
  Strings <- MCStrings
INVARIANTS NumbersTypeOK DivisionIsExact PrintsValue
PROPERTY CallEnds
CHECK_DEADLOCK FALSE
