SPECIFICATION Spec
CONSTANTS
  NR_PTES_PER_PAGE = 2
  NR_PAGEFRAMES = 2
  Vpns = {0}
  Pids = {0, 1, 2}
  MaxProcs = 3
  UINT_MOD = 65536
  TlbOptions <- Off
  Discipline <- Careless
INVARIANTS
  TypeOK
  EveryProcessOnce
PROPERTIES
  ReadOnlyStays
  CommandsEnd
