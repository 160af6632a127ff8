\* Every class of message, with names of up to two bytes; in the buffer of a
\* hello there is room for one.
SPECIFICATION Spec
CONSTANTS
  MaxPayload = 2
  HelloBytes = 28
  Pattern = {{}, {0, 1, 3, 5, 8, 15, 17, 31, 33, 62}}
INVARIANTS FieldsIntact Accepted InBounds
CHECK_DEADLOCK FALSE
