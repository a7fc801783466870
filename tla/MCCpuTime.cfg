\* Two pids that move between two CPUs, are renamed and are reused, and a map
\* with room for one of them; samples, windows and restarts of a cgroup in every
\* order, and a delta that loses its remainder.
SPECIFICATION AccountSpec
CONSTANTS
  Pids = {p, q}
  Idle = Idle
  Cpus = {c1, c2}
  Cids = {a}
  Host = Host
  Capacity = 1
  MaxTime = 4
  MaxForks = 1
  MaxMishaps = 1
  Unit = 2
  MaxUsage = 6
  MaxWindows = 3
  UsedBefore = 1
  MaxMisses = 2
SYMMETRY MCSymmetry
INVARIANTS
  TypeOK
  RuntimeExact
  ContainerNotOvercharged
  CgroupTypeOK
  NotOverReported
PROPERTIES
  MetersCpu
