SPECIFICATION Spec
CONSTANTS
  N = 3
  Resources = {"a", "b"}
  Scripts <- SingleScripts
  Schedulers <- RoundRobin
  MAX_PRIO = 64
  MAX_TC = 100000000
  UINT_MOD = 65536
INVARIANTS
  NeverLinkedTwice
