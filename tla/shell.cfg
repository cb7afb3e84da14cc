SPECIFICATION FairSpec
CONSTANTS
  Handlers = {"registry", "strtab"}
  NoHandler = "none"
  Chars <- ShellChars
  Lists = {"registry", "strtab"}
  NoList = "none"
  BuiltIn = {"help", "?", "rem", "version", "nop", "ls", "cd", "source", ".", "cat", "pwd", "echo", "exit"}
  CommandsOf <- SomeCommands
  Numbers <- SomeNumbers
  LineMax = 8
  SubMax = 9
  ArgMax = 3
  Faults = {"cancel", "memory"}
  Lines <- ShellLines
  Files <- SomeFiles
  KeyLength = 1
  ValueMax = 4
  Capacity = 2
  Wide = 65536
  MayStop = TRUE
INVARIANTS
  TypeOK
  ListsAreExact
  SubstitutionIsRight
  ErrorsAreReported
  StoredValuesAreStrings
PROPERTIES
  EntriesChangeByName
  ScriptEnds
CHECK_DEADLOCK FALSE
