\* Two containers that restart, failing inspections, one CPU: attribution.
SPECIFICATION Spec
CONSTANTS
  Host = Host
  Cids = {a, b}
  MaxStarts = 2
  Cpus = {1}
  Buckets = {"open"}
  MaxCgids = 3
  MaxIdx = 2
  MaxSyscalls = 1
  InspectMayFail = FALSE
  SystemdLayout = FALSE
SYMMETRY CidSymmetry
INVARIANTS
  TypeOK
  HostRowsSettled
  RowsOfOwnContainer
