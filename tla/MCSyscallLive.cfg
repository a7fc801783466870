\* One container that restarts: counted calls get reported once, runs get mapped.
SPECIFICATION FairSpec
CONSTANTS
  Host = Host
  Cids = {a}
  MaxStarts = 2
  Cpus = {1}
  Buckets = {"open"}
  MaxCgids = 2
  MaxIdx = 1
  MaxSyscalls = 2
  InspectMayFail = FALSE
  SystemdLayout = FALSE
INVARIANTS
  TornByOnePerCpu
PROPERTIES
  
  TotalsReported
  RunningIsMapped
