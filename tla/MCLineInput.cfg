SPECIFICATION LineSpec
CONSTANTS
  Keys <- MCKeys
  Shifts <- MCShifts
  keyboard_map <- MCMap
  keyboard_map_shift <- MCMapShift
  NoKey = "none"
  Enter = "enter"
  NUL = "NUL"
  Backspace = "BS"
  Newline = "LF"
  Blank = " "
  Prompt = ":"
  Glyphs = {"a", "A", ":"}
  VGA_WIDTH = 4
  VGA_HEIGHT = 2
  size = 5
  MaxKeys = 5
  MaxRows = 4
INVARIANTS LineTypeOK TakenInOrder PacedLineIsExact EchoIsLine
PROPERTY EnterEndsLine
CHECK_DEADLOCK FALSE
