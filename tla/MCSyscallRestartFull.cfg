\* Old cgroups fill cgid_map: a running container is never mapped.
SPECIFICATION FairSpec
CONSTANTS
  Host = Host
  Cids = {a}
  MaxStarts = 2
  Cpus = {1}
  Buckets = {"open"}
  MaxCgids = 1
  MaxIdx = 2
  MaxSyscalls = 0
  InspectMayFail = FALSE
  SystemdLayout = FALSE
PROPERTIES
  RunningIsMapped
