SPECIFICATION Spec
CONSTANTS
  Handlers = {"registry", "strtab"}
  NoHandler = "none"
  Chars <- ShellChars
  Lists = {"registry", "strtab"}
  NoList = "none"
  BuiltIn = {"help", "?", "rem", "version", "nop", "ls", "cd", "source", ".", "cat", "pwd", "echo", "exit"}
  CommandsOf <- SomeCommands
  Numbers <- SomeNumbers
  LineMax = 12
  SubMax = 16
  ArgMax = 5
  Faults = {}
  Lines <- EchoLines
  Files <- SomeFiles
  KeyLength = 2
  ValueMax = 4
  Capacity = 2
  Wide = 65536
  MayStop = FALSE
INVARIANTS
  TextAfterSubstitutionIsRun
CHECK_DEADLOCK FALSE
