SPECIFICATION Spec
CONSTANTS
  N = 3
  Resources = {"a", "b"}
  Scripts <- UsesScripts
  Schedulers <- Everything
  MAX_PRIO = 64
  MAX_TC = 100000000
  UINT_MOD = 65536
INVARIANTS
  TypeOK
  HighestRuns
  NeverBlocks
  PipInherits
  EveryoneExits
  ExitIffWellFormed
  ScriptsLoad
PROPERTIES
  Termination
