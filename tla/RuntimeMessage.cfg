CONSTANT MaxId = 2
SPECIFICATION Spec
CHECK_DEADLOCK FALSE
INVARIANTS
  Delivered
  OnlyMessages
