CONSTANTS
  Alphabet = {" ", ".", "0", "1", "2", "5", "6"}
  MaxLen = 4
  Bits = 8
SPECIFICATION Spec
\* A version key after SetReady blocks the event loop for ever: the
\* program really stops there.
CHECK_DEADLOCK FALSE
INVARIANT TypeOK
INVARIANT ParseFollowsSpec
 
