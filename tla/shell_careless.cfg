SPECIFICATION Spec
CONSTANTS
  Words <- SomeWords
  NULL = NULL
  FREED = FREED
  MAX_NR_TOKENS = 8
  NR_WORDCNT = 2
  Lines <- SomeLines
  Programs <- SomePrograms
  Directories = {"home", "tmp"}
  HOME = "home"
  PIPE_SIZE = 1
  Discipline <- KeepsNone
INVARIANTS
  TypeOK
  PromptAfterExit
  AllCarried
PROPERTIES
  AliasesInOrder
CHECK_DEADLOCK FALSE
