SPECIFICATION Spec
CHECK_DEADLOCK FALSE
CONSTANTS
  Users = {1, 2}
  Writers = {2}
  Killable = {1}
  Keys = {"a", "nl", "cr", "^D", "^U", "^H", "nul"}
  INPUT_BUF = 3
  UINT = 6
  ReadSizes = {2}
  MAXARGS = 3
  Tokens = {"a", "|", "(", ")", ";", "&", "<", ">"}
  MaxTokens = 5
  NPROC = 7
  NOFILE = 5
  NFILE = 6
  NPIPE = 3
  PIPESIZE = 1
  Typed <- AllLines
  Alone <- OtherLines
  PsSlots = 3
  PsPids = 4
  PsNames = {"sh"}
  NEAR = 2
  PsQueries <- Queries
INVARIANTS
  ReaderAsleep
  ParsesAsGrammar
  
  WiredAsWritten
  ListsTheUnchanged
PROPERTIES
  LinesKept
  PromptReturns
