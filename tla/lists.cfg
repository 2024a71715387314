SPECIFICATION MCSpec
CONSTANTS
  Nodes = {a, b, c, d, e}
  Buckets = {g, h}
  NULL = NULL
  LIST_POISON1 = LIST_POISON1
  LIST_POISON2 = LIST_POISON2
INVARIANTS
  WellLinked
  QueriesAgree
  VisitsAll
  WellHashed
PROPERTIES
  VisitsOnce
SYMMETRY Renamings
