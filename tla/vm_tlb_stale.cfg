SPECIFICATION Spec
CONSTANTS
  NR_PTES_PER_PAGE = 2
  NR_PAGEFRAMES = 3
  Vpns = {0, 2}
  Pids = {0, 1, 2}
  MaxProcs = 2
  UINT_MOD = 65536
  TlbOptions <- On
  Discipline <- Careful
INVARIANT TlbAgrees
