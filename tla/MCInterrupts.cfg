SPECIFICATION InterruptsSpec
CONSTANTS
  Lines = {0, 1, 8, 9, 14}
  MaxRaises = 4
INVARIANTS InterruptsTypeOK NothingLeftInService
PROPERTIES AcknowledgesItsOwn KeyboardIsServed SlaveIsServed
CHECK_DEADLOCK FALSE
