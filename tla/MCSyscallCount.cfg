\* Two CPUs that count for two containers, in a histogram map with room for one.
SPECIFICATION Spec
CONSTANTS
  Host = Host
  Cids = {a, b}
  MaxStarts = 2
  Cpus = {p, q}
  Buckets = {"open"}
  MaxCgids = 2
  MaxIdx = 1
  MaxSyscalls = 2
  InspectMayFail = FALSE
  SystemdLayout = FALSE
SYMMETRY BothSymmetries
CONSTRAINT NoPoll
INVARIANTS
  EveryCallAccounted
PROPERTIES
  CountersOnlyGrow
