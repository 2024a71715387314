SPECIFICATION Spec
CONSTANTS
  N = 4
  Resources = {"a", "b"}
  Scripts <- PlainScripts
  Schedulers <- Everything
  MAX_PRIO = 64
  MAX_TC = 4
  UINT_MOD = 65536
INVARIANTS
  FifoExitOrder
  SjfShortestAtDispatch
  FairShare
  AgingBoundsWait
  IdleOnlyWhenNothingReady
PROPERTIES
  StcfLeastRemaining
