SPECIFICATION CommandLineSpec
CONSTANTS
  Layouts <- MCLayouts
  Offsets = {0, 1}
  SetupName = "vtos_cmd_setup"
  OtherName = "other"
  NULL = NULL
  Adds <- MCAdds
  Unwritten <- MCUnwritten
  Letters = {"p", "q"}
  Separator = ","
  NUL = "NUL"
  MaxTokens = 2
  MaxLine = 5
INVARIANT MissingWordIsNull
