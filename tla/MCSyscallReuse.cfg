\* The element of cgid_map that a program instance found goes to another entry.
SPECIFICATION Spec
CONSTANTS
  Host = Host
  Cids = {a, b}
  MaxStarts = 1
  Cpus = {1}
  Buckets = {"open"}
  MaxCgids = 2
  MaxIdx = 2
  MaxSyscalls = 1
  InspectMayFail = TRUE
  SystemdLayout = FALSE
SYMMETRY CidSymmetry
INVARIANTS
  AttributionIsInstant
