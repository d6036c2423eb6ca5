SPECIFICATION Spec
CONSTANTS
  Messenger = messenger
  Others = {other}
  MaxDepth = 3
  MaxLines = 6
CHECK_DEADLOCK FALSE
INVARIANTS
  TypeOK
  PlainEventsAreHeard
  HeardInOrder
  OnlyInnerCallsMislead
