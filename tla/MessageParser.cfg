\* Three calls, one of them cut off; sizes small enough for every way to cut the
\* stream, and a payload as long as a header.
CONSTANTS
  REQUEST = 2
  RESPONSE = 3
  HEADER = 2
  RECV = 4
  Payloads = {2}
  MaxSends = 3
  MaxBreaks = 1
SPECIFICATION Spec
INVARIANT StructsInOrder
PROPERTY MessageReturned
