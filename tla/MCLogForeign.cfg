SPECIFICATION Spec
CONSTANTS
  Messenger = messenger
  Others = {other}
  MaxDepth = 2
  MaxLines = 5
CHECK_DEADLOCK FALSE
INVARIANTS
  HandledIsOwn
