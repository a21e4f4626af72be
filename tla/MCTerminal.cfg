SPECIFICATION LogSpec
CONSTANTS
  VGA_WIDTH = 3
  VGA_HEIGHT = 3
  Blank = Blank
  Newline = Newline
  Glyphs = {a, Log, Dump, Fault}
  MaxRows = 4
  COM1 = COM1
  COM2 = COM2
  NoPort = NoPort
  Log = Log
  Dump = Dump
  Fault = Fault
  MaxFaults = 2
INVARIANTS LogTypeOK ScreenShowsText GoesWhereMeant LevelsRestored
PROPERTIES FaultIsReported PrintsOnTerminal
CHECK_DEADLOCK FALSE
