SPECIFICATION Spec
CONSTANTS
  NR_PTES_PER_PAGE = 2
  NR_PAGEFRAMES = 2
  Vpns = {0, 2}
  Pids = {0, 1, 2}
  MaxProcs = 3
  UINT_MOD = 65536
  TlbOptions <- OnOrOff
  Discipline <- Careful
INVARIANTS
  WriteHitsAgree
  MapcountsCount
  SharedIsReadOnly
PROPERTIES
  ImplementsAddressSpaces
CONSTRAINT PidsInOrder
