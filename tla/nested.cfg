SPECIFICATION GSpec
CONSTANTS
  N = 3
  Resources = {"a", "b"}
  Scripts <- NestedScripts
  Schedulers <- Everything
  MAX_PRIO = 64
  MAX_TC = 100000000
  UINT_MOD = 65536
INVARIANTS
  OnePlace
  OwnerHolds
  NoLostWakeup
  StuckOnlyByDeadlock
PROPERTIES
  GrantToHighest
  ImplementsTaskSystem
